---- MODULE Spec2Model ----
(***************************************************************************)
(* A model of the dogdorm dealer: the WorkQueue (worker/work_queue.py),    *)
(* the scheduler functions allocate_work and mark_complete                 *)
(* (dealer/dealer_utils.py) and the HTTP handlers /work, /complete and     *)
(* /insert (dealer/dealer.py) over the in-memory store.                    *)
(*                                                                         *)
(* The MemDB class (db/mem_db.py), its row types (db/mem_db_defs.py) and   *)
(* the linked list (db/linked_list.py) are not part of the sources at      *)
(* hand; they are modelled from the specification's sections 3, 4.1-4.3.   *)
(* Rows carry only the attributes the scheduler reads (user and password   *)
(* are never read by it and are left out).                                 *)
(***************************************************************************)
EXTENDS Integers, Sequences, FiniteSets, TLC

VARIABLES
    mem_db,     \* the dealer's MemDB (dealer.py: mem_db = MemDB())
    clock,      \* the dealer's int(time.time())
    reply,      \* the last request served and what it answered
    dealt_at,   \* per group: the clock value when /work last returned it,
                \* dropped when a completion is applied to one of its statuses
    work_queue, \* a WorkQueue object on its own, driven operation by operation
    sqlite_db,  \* the rows of the sqlite file the dealer backs itself up to
    server_cache, \* the listing /servers answers with (dealer.py: server_cache)
    tasks       \* where the coroutines and the request threads of the dealer are

vars == <<mem_db, clock, reply, dealt_at, work_queue, sqlite_db, server_cache, tasks>>

(***************************************************************************)
(* Bounds of the exploration.                                              *)
(***************************************************************************)
MaxTicks == 1           \* clock advances explored
MaxTests == 4           \* completions explored (the sum of test_no), SpecStatus
MaxSchedTests == 2      \* completions explored (the sum of test_no), Spec
MaxWorkIds == 3          \* work ids of the standalone WorkQueue, SpecWQ
MaxServiceRows == 1     \* /insert is explored while fewer service rows exist
MaxAliasRows == 2       \* the same, SpecAlias
MaxAliasTests == 3      \* completions explored (the sum of test_no), SpecAlias
MaxCatRows == 6         \* service rows inserted, SpecCat
MaxCatTests == 5        \* completions explored (the sum of test_no), SpecCat
MaxFairGroups == 3      \* group ids followed for starvation, SpecFair
MaxThreads == 3         \* threads serving one /work each, SpecThreads
MaxScoreTests == 6      \* test_no and failed_tests of the statuses scored, SpecScore
StartClock == 1000      \* the dealer's clock at startup
EarlyT == 1             \* a completion time before every clock value
MaxWorkerTests == 5     \* completions explored, SpecWorker
MaxSleeps == 3          \* monitoring periods a worker sleeps through, SpecWorker
MaxLogged == 2          \* logged exceptions told apart, SpecRefresh

(***************************************************************************)
(* Program constants: defs.py.                                             *)
(***************************************************************************)
WORKER_TIMEOUT == 120
MONITOR_FREQUENCY == 3600
MAX_SERVER_DOWNTIME == 600
IMPORT_TEST_NO == 3

STUN_MAP_TYPE == 3
STUN_CHANGE_TYPE == 4
MQTT_TYPE == 5
TURN_TYPE == 6
NTP_TYPE == 7
SERVICE_TYPES == <<STUN_MAP_TYPE, STUN_CHANGE_TYPE, MQTT_TYPE, TURN_TYPE, NTP_TYPE>>

STATUS_AVAILABLE == 9
STATUS_DEALT == 11
STATUS_INIT == 12
STATUS_DISABLED == 13
STATUS_TYPES == <<STATUS_INIT, STATUS_AVAILABLE, STATUS_DEALT, STATUS_DISABLED>>

SERVICES_TABLE_TYPE == 14
ALIASES_TABLE_TYPE == 15
IMPORTS_TABLE_TYPE == 16
TABLE_TYPES == <<SERVICES_TABLE_TYPE, ALIASES_TABLE_TYPE, IMPORTS_TABLE_TYPE>>

\* p2pd's address families, stack and protocol enums (opaque values here).
IP4 == "IP4"
IP6 == "IP6"
DUEL_STACK == "DUEL_STACK"
VALID_AFS == <<IP4, IP6>>
UDP == "UDP"
TCP == "TCP"

\* Python's None for an optional integer / string.
None == -1
NoneStr == "None"

Range(s) == {s[i] : i \in 1..Len(s)}

EmptyMap == [x \in {} |-> 0]

MapPut(f, k, v) == [x \in (DOMAIN f) \cup {k} |-> IF x = k THEN v ELSE f[x]]

MapDel(f, k) == [x \in (DOMAIN f) \ {k} |-> f[x]]

(***************************************************************************)
(* LinkedList (db/linked_list.py), modelled from spec 4.1 as a sequence of *)
(* keys in insertion order: append to tail, unlink a node, pop the head.   *)
(***************************************************************************)
ll_append(list, work_id) == Append(list, work_id)

ll_remove(list, work_id) == SelectSeq(list, LAMBDA x : x # work_id)

(***************************************************************************)
(* WorkQueue (worker/work_queue.py).  index maps a work id to the name of  *)
(* the sublist that holds its node; the payload lives in mem_db.groups.    *)
(***************************************************************************)
WorkQueue == [queues |-> [s \in Range(STATUS_TYPES) |-> <<>>],
              index |-> EmptyMap,
              timestamps |-> EmptyMap]

add_work_raises(wq, work_id) == work_id \in DOMAIN wq.index

add_work(wq, work_id, queue_name, now) ==
    [queues |-> [wq.queues EXCEPT ![queue_name] = ll_append(@, work_id)],
     index |-> MapPut(wq.index, work_id, queue_name),
     timestamps |-> MapPut(wq.timestamps, work_id, now)]

move_work_raises(wq, work_id) == work_id \notin DOMAIN wq.index

\* move_work without the unlink from the sublist the work is in.
move_work_keep(wq, work_id, queue_name, now) ==
    [queues |-> [wq.queues EXCEPT ![queue_name] = ll_append(@, work_id)],
     index |-> MapPut(wq.index, work_id, queue_name),
     timestamps |-> MapPut(wq.timestamps, work_id, now)]

\* move_work that leaves the timestamp of the work as it was.
move_work_nostamp(wq, work_id, queue_name, now) ==
    LET from_queue == wq.index[work_id]
        removed == [wq.queues EXCEPT ![from_queue] = ll_remove(@, work_id)]
    IN  [queues |-> [removed EXCEPT ![queue_name] = ll_append(@, work_id)],
         index |-> MapPut(wq.index, work_id, queue_name),
         timestamps |-> wq.timestamps]

move_work(wq, work_id, queue_name, now) ==
    LET from_queue == wq.index[work_id]
        removed == [wq.queues EXCEPT ![from_queue] = ll_remove(@, work_id)]
    IN  [queues |-> [removed EXCEPT ![queue_name] = ll_append(@, work_id)],
         index |-> MapPut(wq.index, work_id, queue_name),
         timestamps |-> MapPut(wq.timestamps, work_id, now)]

\* remove_work that leaves the timestamp of the work behind.
remove_work_keepstamp(wq, work_id) ==
    LET queue_name == wq.index[work_id]
    IN  [queues |-> [wq.queues EXCEPT ![queue_name] = ll_remove(@, work_id)],
         index |-> MapDel(wq.index, work_id),
         timestamps |-> wq.timestamps]

remove_work(wq, work_id) ==
    LET queue_name == wq.index[work_id]
    IN  [queues |-> [wq.queues EXCEPT ![queue_name] = ll_remove(@, work_id)],
         index |-> MapDel(wq.index, work_id),
         timestamps |-> MapDel(wq.timestamps, work_id)]

pop_available(wq) ==
    IF wq.queues[STATUS_AVAILABLE] = <<>>
    THEN wq
    ELSE LET work_id == Head(wq.queues[STATUS_AVAILABLE])
         IN  [queues |-> [wq.queues EXCEPT ![STATUS_AVAILABLE] = Tail(@)],
              index |-> MapDel(wq.index, work_id),
              timestamps |-> MapDel(wq.timestamps, work_id)]

(***************************************************************************)
(* MemDB (db/mem_db.py), modelled from spec 3 and 4.3.                     *)
(***************************************************************************)
GROUPS_TABLE_TYPE == 17
STATUS_TABLE_TYPE == 18

TableSet == Range(TABLE_TYPES)

AfSet == Range(VALID_AFS)

MemDB ==
    [records |-> [t \in TableSet |-> EmptyMap],
     statuses |-> EmptyMap,
     groups |-> EmptyMap,
     work |-> [t \in TableSet |-> [af \in AfSet |-> WorkQueue]],
     uniques |-> [t \in TableSet |-> {}],
     records_by_aliases |-> EmptyMap,
     aliases_by_ip |-> EmptyMap,
     ids |-> [t \in TableSet \cup {GROUPS_TABLE_TYPE, STATUS_TABLE_TYPE} |-> 1]]

\* ids are handed out as max-seen + 1.
get_id(db, table_type) == db.ids[table_type]

add_id(db, table_type, next_id) ==
    [db EXCEPT !.ids[table_type] = IF next_id > @ THEN next_id ELSE @]

StatusType(id, table_type, row_id) ==
    [id |-> id, table_type |-> table_type, row_id |-> row_id,
     status |-> STATUS_INIT, test_no |-> 0, failed_tests |-> 0,
     last_status |-> 0, last_success |-> 0, last_uptime |-> 0,
     uptime |-> 0, max_uptime |-> 0]

\* A row and its status row are created together; they refer to each other.
insert_row(db, table_type, row) ==
    LET id == get_id(db, table_type)
        status_id == get_id(db, STATUS_TABLE_TYPE)
        full == [k \in (DOMAIN row) \cup {"id", "table_type", "status_id", "group_id"} |->
                    CASE k = "id" -> id
                      [] k = "table_type" -> table_type
                      [] k = "status_id" -> status_id
                      [] k = "group_id" -> None
                      [] OTHER -> row[k]]
        db1 == [db EXCEPT !.records[table_type] = MapPut(@, id, full),
                          !.statuses = MapPut(@, status_id,
                                              StatusType(status_id, table_type, id))]
    IN  [db |-> add_id(add_id(db1, table_type, id + 1), STATUS_TABLE_TYPE, status_id + 1),
         id |-> id]

\* MemDB.add_work: registers the rows as one group and queues the group.
MemDB_add_work(db, af, table_type, records, group_id, initial_sk, now) ==
    LET gid == IF group_id = None THEN get_id(db, GROUPS_TABLE_TYPE) ELSE group_id
        meta_group == [table_type |-> table_type, af |-> af, group |-> records,
                       status_id |-> db.records[table_type][records[1]].status_id]
    IN  add_id(
          [db EXCEPT
             !.records[table_type] =
                 [id \in DOMAIN @ |->
                     IF id \in Range(records) THEN [@[id] EXCEPT !.group_id = gid]
                     ELSE @[id]],
             !.groups = MapPut(@, gid, meta_group),
             !.work[table_type][af] = add_work(@, gid, initial_sk, now)],
          GROUPS_TABLE_TYPE, gid + 1)

AliasUnique(af, fqn) == <<af, fqn>>

\* insert_alias is idempotent on (af, fqn); a new alias owns a work group.
fetch_or_insert_alias(db, af, fqn, now) ==
    LET found == {id \in DOMAIN db.records[ALIASES_TABLE_TYPE] :
                     /\ db.records[ALIASES_TABLE_TYPE][id].af = af
                     /\ db.records[ALIASES_TABLE_TYPE][id].fqn = fqn}
    IN  IF found # {}
        THEN [db |-> db, id |-> CHOOSE id \in found : TRUE]
        ELSE LET r == insert_row(db, ALIASES_TABLE_TYPE,
                                 [af |-> af, fqn |-> fqn, ip |-> NoneStr])
                 db1 == [r.db EXCEPT
                           !.uniques[ALIASES_TABLE_TYPE] = @ \cup {AliasUnique(af, fqn)},
                           !.records_by_aliases = MapPut(@, r.id, <<>>)]
             IN  [db |-> MemDB_add_work(db1, af, ALIASES_TABLE_TYPE, <<r.id>>,
                                        None, STATUS_INIT, now),
                  id |-> r.id]

\* The secondary index of the aliases by the ip they resolve to.
del_alias_by_ip(db, alias_id) ==
    LET ip == db.records[ALIASES_TABLE_TYPE][alias_id].ip
    IN  IF ip \notin DOMAIN db.aliases_by_ip THEN db
        ELSE IF db.aliases_by_ip[ip] \ {alias_id} = {}
        THEN [db EXCEPT !.aliases_by_ip = MapDel(@, ip)]
        ELSE [db EXCEPT !.aliases_by_ip[ip] = @ \ {alias_id}]

add_alias_by_ip(db, alias_id) ==
    LET ip == db.records[ALIASES_TABLE_TYPE][alias_id].ip
    IN  IF ip = NoneStr THEN db
        ELSE [db EXCEPT !.aliases_by_ip =
                 MapPut(@, ip, (IF ip \in DOMAIN @ THEN @[ip] ELSE {}) \cup {alias_id})]

Locator(ip, fqn) == IF ip # NoneStr THEN ip ELSE fqn

ImportUnique(import_type, af, ip, port, fqn) ==
    <<import_type, af, Locator(ip, fqn), port>>

insert_import_raises(db, import_type, af, ip, port, fqn) ==
    ImportUnique(import_type, af, ip, port, fqn) \in db.uniques[IMPORTS_TABLE_TYPE]

insert_import(db, import_type, af, ip, port, fqn, now) ==
    LET a == IF fqn # NoneStr THEN fetch_or_insert_alias(db, af, fqn, now)
             ELSE [db |-> db, id |-> None]
        r == insert_row(a.db, IMPORTS_TABLE_TYPE,
                        [import_type |-> import_type, af |-> af, ip |-> ip,
                         port |-> port, fqn |-> fqn, alias_id |-> a.id])
    IN  [db |-> [r.db EXCEPT
                   !.uniques[IMPORTS_TABLE_TYPE] =
                       @ \cup {ImportUnique(import_type, af, ip, port, fqn)},
                   !.records_by_aliases =
                       IF a.id = None THEN @
                       ELSE MapPut(@, a.id, Append(@[a.id], <<IMPORTS_TABLE_TYPE, r.id>>))],
         id |-> r.id]

ServiceUnique(service_type, af, proto, ip, port) ==
    <<af, proto, service_type, ip, port>>

insert_service_raises(db, service) ==
    ServiceUnique(service.service_type, service.af, service.proto,
                  service.ip, service.port) \in db.uniques[SERVICES_TABLE_TYPE]

insert_service(db, service) ==
    LET r == insert_row(db, SERVICES_TABLE_TYPE,
                        [type |-> service.service_type, af |-> service.af,
                         proto |-> service.proto, ip |-> service.ip,
                         port |-> service.port, alias_id |-> service.alias_id])
        known == service.alias_id \in DOMAIN r.db.records_by_aliases
    IN  [db |-> [r.db EXCEPT
                   !.uniques[SERVICES_TABLE_TYPE] =
                       @ \cup {ServiceUnique(service.service_type, service.af,
                                             service.proto, service.ip, service.port)},
                   !.records_by_aliases =
                       IF known
                       THEN MapPut(@, service.alias_id,
                                   Append(@[service.alias_id], <<SERVICES_TABLE_TYPE, r.id>>))
                       ELSE @],
         id |-> r.id]

(***************************************************************************)
(* Seed merge at startup (db/db_init.py).  A seed line is modelled after   *)
(* its split: malformed lines are not part of this model.                  *)
(***************************************************************************)
\* int(port) for the port texts of the seed files; every other text makes
\* int raise ValueError.
PortNumbers == MapPut(MapPut(EmptyMap, "3478", 3478), "1883", 1883)

int_raises(text) == text \notin DOMAIN PortNumbers

int(text) == PortNumbers[text]

\* The fields of a line split at its commas.  A line without a second
\* field (IndexError) or with a port that is no number (ValueError) raises
\* before anything is inserted.
parse_raises(parts) == Len(parts) < 2 \/ int_raises(parts[2])

parse(parts) ==
    [ip |-> IF parts[1] \in {"0", ""} THEN NoneStr ELSE parts[1],
     port |-> int(parts[2]),
     fqn |-> IF Len(parts) > 2 THEN parts[3] ELSE NoneStr]

\* The body of the loop of insert_from_lines: a line that raises, by its
\* form or as a duplicate, is logged and the loop goes on.
insert_from_line(db, af, import_type, line, now) ==
    IF parse_raises(line.parts) THEN db
    ELSE LET l == parse(line.parts)
         IN  IF insert_import_raises(db, import_type, af, l.ip, l.port, l.fqn)
             THEN db
             ELSE LET r == insert_import(db, import_type, af, l.ip, l.port, l.fqn, now)
                  IN  MemDB_add_work(r.db, af, IMPORTS_TABLE_TYPE, <<r.id>>, None,
                                     STATUS_INIT, now)

RECURSIVE insert_from_lines(_, _, _)
insert_from_lines(db, lines, now) ==
    IF lines = <<>> THEN db
    ELSE insert_from_lines(
             insert_from_line(db, Head(lines).af, Head(lines).import_type, Head(lines), now),
             Tail(lines), now)

(***************************************************************************)
(* Scheduler: mark_complete and allocate_work (dealer/dealer_utils.py).    *)
(***************************************************************************)
Max(a, b) == IF a > b THEN a ELSE b

\* The KeyError paths of mark_complete; all of them precede any mutation.
mark_complete_raises(db, status_id) ==
    \/ status_id \notin DOMAIN db.statuses
    \/ LET status == db.statuses[status_id]
       IN  \/ status.row_id \notin DOMAIN db.records[status.table_type]
           \/ LET record == db.records[status.table_type][status.row_id]
              IN  move_work_raises(db.work[status.table_type][record.af], record.group_id)

\* complete_target with the import limit compared strictly.
complete_target_strict(table_type, test_no, is_success) ==
    IF table_type = IMPORTS_TABLE_TYPE /\ (test_no > IMPORT_TEST_NO \/ is_success # 0)
    THEN STATUS_DISABLED
    ELSE STATUS_AVAILABLE

\* The sublist a completed group is moved to.
complete_target(table_type, test_no, is_success) ==
    IF table_type = IMPORTS_TABLE_TYPE /\ (test_no >= IMPORT_TEST_NO \/ is_success # 0)
    THEN STATUS_DISABLED
    ELSE STATUS_AVAILABLE

\* complete_status without the update of max_uptime.
complete_status_nomax(status, is_success, status_type, t) ==
    LET change == IF status.last_uptime = 0 THEN 0 ELSE Max(0, t - status.last_uptime)
        uptime == status.uptime + change
        s1 == IF is_success # 0
              THEN [status EXCEPT !.uptime = uptime,
                                  !.last_uptime = t,
                                  !.last_success = t]
              ELSE [status EXCEPT !.failed_tests = @ + 1,
                                  !.uptime = 0]
    IN  [s1 EXCEPT !.status = status_type,
                   !.test_no = @ + 1,
                   !.last_status = t]

\* The status fields after a completion at time t.
complete_status(status, is_success, status_type, t) ==
    LET change == IF status.last_uptime = 0 THEN 0 ELSE Max(0, t - status.last_uptime)
        uptime == status.uptime + change
        s1 == IF is_success # 0
              THEN [status EXCEPT !.uptime = uptime,
                                  !.max_uptime = IF uptime > @ THEN uptime ELSE @,
                                  !.last_uptime = t,
                                  !.last_success = t]
              ELSE [status EXCEPT !.failed_tests = @ + 1,
                                  !.uptime = 0]
    IN  [s1 EXCEPT !.status = status_type,
                   !.test_no = @ + 1,
                   !.last_status = t]

\* mark_complete that ignores the reported time.
mark_complete_now(db, is_success, status_id, t_arg, now) ==
    LET status == db.statuses[status_id]
        table_type == status.table_type
        status_type == complete_target(table_type, status.test_no, is_success)
        record == db.records[table_type][status.row_id]
    IN  [db EXCEPT
           !.work[table_type][record.af] = move_work(@, record.group_id, status_type, now),
           !.statuses[status_id] = complete_status(status, is_success, status_type, now)]

mark_complete(db, is_success, status_id, t_arg, now) ==
    LET t == IF t_arg # 0 THEN t_arg ELSE now
        status == db.statuses[status_id]
        table_type == status.table_type
        status_type == complete_target(table_type, status.test_no, is_success)
        record == db.records[table_type][status.row_id]
        af == record.af
        group_id == record.group_id
    IN  [db EXCEPT
           !.work[table_type][af] = move_work(@, group_id, status_type, now),
           !.statuses[status_id] = complete_status(status, is_success, status_type, t)]

\* The sublists allocate_work walks in each queue, in this order.
SCAN_STATUSES == <<STATUS_INIT, STATUS_AVAILABLE, STATUS_DEALT>>

\* ScanOrder with the address family as the outer loop.
ScanOrder_af_first(need_afs, table_types) ==
    [n \in 1..(Len(table_types) * Len(need_afs) * Len(SCAN_STATUSES)) |->
        LET j == ((n - 1) \div (Len(table_types) * Len(SCAN_STATUSES))) + 1
            i == (((n - 1) \div Len(SCAN_STATUSES)) % Len(table_types)) + 1
            k == ((n - 1) % Len(SCAN_STATUSES)) + 1
        IN  <<table_types[i], need_afs[j], SCAN_STATUSES[k]>>]

\* The (table, af, sublist) positions in the order of the three nested loops.
ScanOrder(need_afs, table_types) ==
    [n \in 1..(Len(table_types) * Len(need_afs) * Len(SCAN_STATUSES)) |->
        LET i == ((n - 1) \div (Len(need_afs) * Len(SCAN_STATUSES))) + 1
            j == (((n - 1) \div Len(SCAN_STATUSES)) % Len(need_afs)) + 1
            k == ((n - 1) % Len(SCAN_STATUSES)) + 1
        IN  <<table_types[i], need_afs[j], SCAN_STATUSES[k]>>]

\* too_recent with the monitor frequency compared inclusively.
too_recent_inclusive(status_type, elapsed, mon_freq) ==
    \/ status_type # STATUS_DEALT /\ elapsed <= mon_freq
    \/ status_type = STATUS_DEALT /\ elapsed < WORKER_TIMEOUT

\* The time checks that make the walk of a sublist stop at its head.
too_recent(status_type, elapsed, mon_freq) ==
    \/ status_type # STATUS_DEALT /\ elapsed < mon_freq
    \/ status_type = STATUS_DEALT /\ elapsed < WORKER_TIMEOUT

\* head_taken that never hands out a dealt group again.
head_taken_once(wq, status_type, cur_time, mon_freq) ==
    /\ wq.queues[status_type] # <<>>
    /\ status_type # STATUS_DEALT
    /\ LET group_id == Head(wq.queues[status_type])
           elapsed == Max(0, cur_time - wq.timestamps[group_id])
       IN  \/ status_type = STATUS_INIT
           \/ ~too_recent(status_type, elapsed, mon_freq)

\* The body of the innermost loop always returns or breaks on the first
\* entry, so a sublist yields its head or nothing.
head_taken(wq, status_type, cur_time, mon_freq) ==
    /\ wq.queues[status_type] # <<>>
    /\ LET group_id == Head(wq.queues[status_type])
           elapsed == Max(0, cur_time - wq.timestamps[group_id])
       IN  \/ status_type = STATUS_INIT
           \/ ~too_recent(status_type, elapsed, mon_freq)

NoWork == [db |-> MemDB, group_id |-> None, rows |-> <<>>, from |-> None,
           table_type |-> None, af |-> NoneStr, elapsed |-> None]

\* allocate_work whose break ends the whole scan instead of the sublist.
allocate_work_break_all(db, need_afs, table_types, cur_time, mon_freq, now) ==
    LET order == ScanOrder(need_afs, table_types)
        hits == {n \in DOMAIN order :
                    head_taken(db.work[order[n][1]][order[n][2]], order[n][3],
                               cur_time, mon_freq)}
        breaks == {n \in DOMAIN order :
                    /\ db.work[order[n][1]][order[n][2]].queues[order[n][3]] # <<>>
                    /\ n \notin hits}
        live == {n \in hits : \A b \in breaks : n < b}
    IN  IF live = {}
        THEN [NoWork EXCEPT !.db = db]
        ELSE LET n == CHOOSE m \in live : \A o \in live : m <= o
                 table_choice == order[n][1]
                 need_af == order[n][2]
                 status_type == order[n][3]
                 wq == db.work[table_choice][need_af]
                 group_id == Head(wq.queues[status_type])
             IN  [db |-> [db EXCEPT !.work[table_choice][need_af] =
                                        move_work(@, group_id, STATUS_DEALT, now)],
                  group_id |-> group_id,
                  rows |-> db.groups[group_id].group,
                  from |-> status_type,
                  table_type |-> table_choice,
                  af |-> need_af,
                  elapsed |-> Max(0, cur_time - wq.timestamps[group_id])]

allocate_work(db, need_afs, table_types, cur_time, mon_freq, now) ==
    LET order == ScanOrder(need_afs, table_types)
        hits == {n \in DOMAIN order :
                    head_taken(db.work[order[n][1]][order[n][2]], order[n][3],
                               cur_time, mon_freq)}
    IN  IF hits = {}
        THEN [NoWork EXCEPT !.db = db]
        ELSE LET n == CHOOSE m \in hits : \A o \in hits : m <= o
                 table_choice == order[n][1]
                 need_af == order[n][2]
                 status_type == order[n][3]
                 wq == db.work[table_choice][need_af]
                 group_id == Head(wq.queues[status_type])
             IN  [db |-> [db EXCEPT !.work[table_choice][need_af] =
                                        move_work(@, group_id, STATUS_DEALT, now)],
                  group_id |-> group_id,
                  rows |-> db.groups[group_id].group,
                  from |-> status_type,
                  table_type |-> table_choice,
                  af |-> need_af,
                  elapsed |-> Max(0, cur_time - wq.timestamps[group_id])]

(***************************************************************************)
(* HTTP handlers (dealer/dealer.py).                                       *)
(***************************************************************************)
NoReply == [op |-> "none", ok |-> TRUE, group_id |-> None, rows |-> <<>>,
            from |-> None, table_type |-> None, af |-> NoneStr,
            elapsed |-> None, mon_freq |-> None, since_dealt |-> None,
            results |-> <<>>, code |-> None, client |-> NoneStr]

\* /work that ignores the stack the worker advertises.
api_get_work_any_af(db, stack_type, table_type, current_time, monitor_frequency, now) ==
    LET cur == IF current_time # 0 THEN current_time ELSE now
        freq == IF monitor_frequency # 0 THEN monitor_frequency ELSE MONITOR_FREQUENCY
        table_types == IF table_type \in TableSet THEN <<table_type>> ELSE TABLE_TYPES
    IN  allocate_work(db, VALID_AFS, table_types, cur, freq, now)

\* /work
api_get_work(db, stack_type, table_type, current_time, monitor_frequency, now) ==
    LET cur == IF current_time # 0 THEN current_time ELSE now
        freq == IF monitor_frequency # 0 THEN monitor_frequency ELSE MONITOR_FREQUENCY
        need_afs == IF stack_type = DUEL_STACK THEN VALID_AFS
                    ELSE IF stack_type \in AfSet THEN <<stack_type>> ELSE VALID_AFS
        table_types == IF table_type \in TableSet THEN <<table_type>> ELSE TABLE_TYPES
    IN  allocate_work(db, need_afs, table_types, cur, freq, now)

\* /complete: the entries are applied in order; a KeyError skips the entry.
\* mark_complete returns nothing, so an applied entry contributes None.
RECURSIVE api_work_done(_, _, _, _)
api_work_done(db, statuses, results, now) ==
    IF statuses = <<>>
    THEN [db |-> db, results |-> results]
    ELSE LET status_info == Head(statuses)
         IN  IF mark_complete_raises(db, status_info.status_id)
             THEN api_work_done(db, Tail(statuses), results, now)
             ELSE api_work_done(
                      mark_complete(db, status_info.is_success, status_info.status_id,
                                    status_info.t, now),
                      Tail(statuses), Append(results, None), now)

\* The addresses that are public and routable; every other string, the
\* absent ip included, makes ensure_ip_is_public raise.
PublicIps == {"1.1.1.1", "1.1.1.2", "1.1.1.3", "8.8.8.8", "2001::1", "2001::2"}

ensure_ip_is_public_raises(ip) == ip \notin PublicIps

\* The cascade rule with the downtime conditions left out.
ip_needs_update_always(record, status, table_type, current_time) == TRUE

\* Whether update_table_ip gives a dependent row the alias's new ip.
ip_needs_update(record, status, table_type, current_time) ==
    IF ensure_ip_is_public_raises(record.ip) THEN TRUE
    ELSE IF table_type = IMPORTS_TABLE_TYPE /\ status.test_no = 0 THEN TRUE
    ELSE LET cond_one == /\ status.last_success = 0
                         /\ status.last_uptime = 0
                         /\ status.test_no >= 2
             cond_two == /\ status.last_success # 0
                         /\ status.last_uptime # 0
                         /\ Max(0, current_time - status.last_uptime)
                                > MAX_SERVER_DOWNTIME * 2
         IN  cond_one \/ cond_two

update_table_ip(db, table_type, ip, alias_id, current_time) ==
    LET dependents == {e[2] : e \in {x \in Range(db.records_by_aliases[alias_id]) :
                                        x[1] = table_type}}
    IN  [db EXCEPT !.records[table_type] =
            [id \in DOMAIN @ |->
                IF /\ id \in dependents
                   /\ ip_needs_update(@[id], db.statuses[@[id].status_id],
                                      table_type, current_time)
                THEN [@[id] EXCEPT !.ip = ip]
                ELSE @[id]]]

\* /alias without the check that the new ip is public.
api_update_alias_unchecked(db, alias_id, ip, current_time, now) ==
    IF alias_id \notin DOMAIN db.records[ALIASES_TABLE_TYPE]
    THEN [db |-> db, ok |-> FALSE]
    ELSE LET cur == IF current_time # 0 THEN current_time ELSE now
             db1 == del_alias_by_ip(db, alias_id)
             db2 == add_alias_by_ip(
                        [db1 EXCEPT !.records[ALIASES_TABLE_TYPE][alias_id].ip = ip],
                        alias_id)
             db3 == update_table_ip(db2, IMPORTS_TABLE_TYPE, ip, alias_id, cur)
         IN  [db |-> update_table_ip(db3, SERVICES_TABLE_TYPE, ip, alias_id, cur),
              ok |-> TRUE]

\* /alias
api_update_alias(db, alias_id, ip, current_time, now) ==
    IF ensure_ip_is_public_raises(ip)
    THEN [db |-> db, ok |-> FALSE]
    ELSE IF alias_id \notin DOMAIN db.records[ALIASES_TABLE_TYPE]
    THEN [db |-> db, ok |-> FALSE]
    ELSE LET cur == IF current_time # 0 THEN current_time ELSE now
             db1 == del_alias_by_ip(db, alias_id)
             db2 == add_alias_by_ip(
                        [db1 EXCEPT !.records[ALIASES_TABLE_TYPE][alias_id].ip = ip],
                        alias_id)
             db3 == update_table_ip(db2, IMPORTS_TABLE_TYPE, ip, alias_id, cur)
         IN  [db |-> update_table_ip(db3, SERVICES_TABLE_TYPE, ip, alias_id, cur),
              ok |-> TRUE]

\* The inner loop of /insert over the members of one group: stops at the
\* first DuplicateRecordError, keeping the rows inserted before it.
RECURSIVE insert_members(_, _, _, _)
insert_members(db, group, records, alias_count) ==
    IF group = <<>>
    THEN [db |-> db, dup |-> FALSE, records |-> records, alias_count |-> alias_count]
    ELSE IF insert_service_raises(db, Head(group))
         THEN [db |-> db, dup |-> TRUE, records |-> records, alias_count |-> alias_count]
         ELSE LET r == insert_service(db, Head(group))
              IN  insert_members(r.db, Tail(group), Append(records, r.id),
                                 IF Head(group).alias_id # None
                                 THEN alias_count + 1 ELSE alias_count)

\* The outer loop of /insert.  A duplicate skips the group; an empty group
\* (IndexError) or a stun-change group with some but not all aliases
\* (Exception) ends the request with an error, later groups unprocessed.
RECURSIVE insert_groups(_, _, _)
insert_groups(db, imports_list, now) ==
    IF imports_list = <<>>
    THEN [db |-> db, ok |-> TRUE]
    ELSE LET m == insert_members(db, Head(imports_list), <<>>, 0)
             first == m.db.records[SERVICES_TABLE_TYPE][m.records[1]]
         IN  IF m.dup
             THEN insert_groups(m.db, Tail(imports_list), now)
             ELSE IF m.records = <<>>
             THEN [db |-> m.db, ok |-> FALSE]
             ELSE IF first.type = STUN_CHANGE_TYPE /\ m.alias_count \notin {0, 4}
             THEN [db |-> m.db, ok |-> FALSE]
             ELSE insert_groups(
                      MemDB_add_work(m.db, first.af, SERVICES_TABLE_TYPE, m.records,
                                     None, STATUS_INIT, now),
                      Tail(imports_list), now)

\* /insert that stops after the first group.
api_insert_services_first(db, imports_list, status_id, now) ==
    LET g == insert_groups(db, IF imports_list = <<>> THEN <<>> ELSE <<Head(imports_list)>>, now)
    IN  IF ~g.ok THEN g
        ELSE IF mark_complete_raises(g.db, status_id)
        THEN [db |-> g.db, ok |-> FALSE]
        ELSE [db |-> mark_complete(g.db, IF Len(imports_list) # 0 THEN 1 ELSE 0,
                                   status_id, 0, now),
              ok |-> TRUE]

\* /insert that always reports the import as a success.
api_insert_services_success(db, imports_list, status_id, now) ==
    LET g == insert_groups(db, imports_list, now)
    IN  IF ~g.ok THEN g
        ELSE IF mark_complete_raises(g.db, status_id)
        THEN [db |-> g.db, ok |-> FALSE]
        ELSE [db |-> mark_complete(g.db, 1, status_id, 0, now),
              ok |-> TRUE]

\* /insert
api_insert_services(db, imports_list, status_id, now) ==
    LET g == insert_groups(db, imports_list, now)
    IN  IF ~g.ok THEN g
        ELSE IF mark_complete_raises(g.db, status_id)
        THEN [db |-> g.db, ok |-> FALSE]
        ELSE [db |-> mark_complete(g.db, IF Len(imports_list) # 0 THEN 1 ELSE 0,
                                   status_id, 0, now),
              ok |-> TRUE]

\* The dependency of the four worker routes with the check left out.
localhost_only_open(client_host) == FALSE

\* Whether localhost_only raises the 403.
localhost_only_raises(client_host) == client_host \notin {"127.0.0.1", "::1"}

\* The routes as a client at client_host reaches them: the status code
\* answered and the store left behind.
route_work(db, client_host, stack_type, table_type, current_time, monitor_frequency, now) ==
    IF localhost_only_raises(client_host) THEN [db |-> db, code |-> 403]
    ELSE [db |-> api_get_work(db, stack_type, table_type, current_time,
                              monitor_frequency, now).db,
          code |-> 200]

route_complete(db, client_host, statuses, now) ==
    IF localhost_only_raises(client_host) THEN [db |-> db, code |-> 403]
    ELSE [db |-> api_work_done(db, statuses, <<>>, now).db, code |-> 200]

route_insert(db, client_host, imports_list, status_id, now) ==
    IF localhost_only_raises(client_host) THEN [db |-> db, code |-> 403]
    ELSE LET r == api_insert_services(db, imports_list, status_id, now)
         IN  [db |-> r.db, code |-> IF r.ok THEN 200 ELSE 500]

route_alias(db, client_host, alias_id, ip, current_time, now) ==
    IF localhost_only_raises(client_host) THEN [db |-> db, code |-> 403]
    ELSE LET r == api_update_alias(db, alias_id, ip, current_time, now)
         IN  [db |-> r.db, code |-> IF r.ok THEN 200 ELSE 500]

\* /servers has no dependency and answers with the cached listing.
route_servers(db, client_host) == [db |-> db, code |-> 200]

(***************************************************************************)
(* Inputs.                                                                 *)
(***************************************************************************)
SeedLine(import_type, af, parts) ==
    [import_type |-> import_type, af |-> af, parts |-> parts]

\* The seed files merged at startup.
SeedLines ==
    << SeedLine(STUN_MAP_TYPE, IP4, <<"0", "3478", "stun.example">>),
       SeedLine(STUN_MAP_TYPE, IP4, <<"">>),
       SeedLine(STUN_MAP_TYPE, IP4, <<"0", "3478", "stun.example">>),
       SeedLine(MQTT_TYPE, IP4, <<"1.1.1.2", "1883">>),
       SeedLine(MQTT_TYPE, IP4, <<"1.1.1.9", "port">>) >>

ServiceData(service_type, af, ip, port, alias_id) ==
    [service_type |-> service_type, af |-> af, proto |-> UDP, ip |-> ip,
     port |-> port, alias_id |-> alias_id]

StunMap1 == << ServiceData(STUN_MAP_TYPE, IP4, "1.1.1.1", 3478, None) >>

StunChange4 ==
    << ServiceData(STUN_CHANGE_TYPE, IP6, "2001::1", 3478, None),
       ServiceData(STUN_CHANGE_TYPE, IP6, "2001::1", 3479, None),
       ServiceData(STUN_CHANGE_TYPE, IP6, "2001::2", 3478, None),
       ServiceData(STUN_CHANGE_TYPE, IP6, "2001::2", 3479, None) >>

StunChange3 == SubSeq(StunChange4, 1, 3)

\* A stun-change group of four with alias_id on two of its members.
StunChangeHalfAlias ==
    [i \in 1..4 |-> IF i <= 2 THEN [StunChange4[i] EXCEPT !.alias_id = 1] ELSE StunChange4[i]]

Mqtt1 == << ServiceData(MQTT_TYPE, IP4, "1.1.1.3", 1883, None) >>

\* A group whose second member repeats its first.
StunMapTwice == StunMap1 \o StunMap1

\* Services found through the seeded alias: one at a public address, one
\* at a private address, on the same port.
AliasSvcPublic == << ServiceData(STUN_MAP_TYPE, IP4, "1.1.1.1", 3478, 1) >>

AliasSvcPrivate == << ServiceData(STUN_MAP_TYPE, IP4, "10.0.0.1", 3478, 1) >>

AliasGroups == {AliasSvcPublic, AliasSvcPrivate}

\* alias_id, ip and current_time of an /alias request.
AliasIds == 1..2

AliasIps == {"1.1.1.1", "8.8.8.8", "10.0.0.9"}

AliasTimes == {0, clock + MAX_SERVER_DOWNTIME * 2, clock + MAX_SERVER_DOWNTIME * 2 + 1}

\* The socket-visible address of a client: the two loopbacks and another.
ClientHosts == {"127.0.0.1", "::1", "203.0.113.7"}

GroupChoices == {StunMap1, StunChange4, StunChange3, StunChangeHalfAlias}

StackChoices == {IP4, IP6, DUEL_STACK}

TableChoices == TableSet \cup {None}

\* Seconds per clock advance: the first whole second past the worker timeout.
TickStep == WORKER_TIMEOUT + 1

\* A monitor_frequency a request may ask for.
ShortFreq == WORKER_TIMEOUT

\* <<current_time, monitor_frequency>> of a /work request; 0 is an absent
\* field.  A worker may send a time of its own, behind or ahead of the
\* dealer's clock.
WorkTimes ==
    { <<0, 0>>, <<clock - 1, ShortFreq>>,
      <<clock + MONITOR_FREQUENCY - TickStep, 0>> }

\* imports_list of an /insert request.
ImportsLists ==
    {<<>>} \cup {<<g>> : g \in GroupChoices}
        \cup {<<StunMap1, StunMap1, Mqtt1>>, <<StunMapTwice, Mqtt1>>}

\* status ids a request may name: the known ones and an unknown one.
StatusChoices == (DOMAIN mem_db.statuses) \cup {get_id(mem_db, STATUS_TABLE_TYPE)}

\* status ids an /insert request may name: an import's, or an unknown one.
ImportStatusChoices ==
    {id \in StatusChoices :
        id \in DOMAIN mem_db.statuses => mem_db.statuses[id].table_type = IMPORTS_TABLE_TYPE}

\* the status ids of the imports, which a worker validating one reports.
KnownImportStatuses == ImportStatusChoices \cap DOMAIN mem_db.statuses

WorkResultData == [status_id : StatusChoices, is_success : {0, 1}, t : {0, EarlyT}]

\* statuses of a /complete request.
StatusLists == {<<e>> : e \in WorkResultData}

RECURSIVE SumOver(_, _)
SumOver(f, S) ==
    IF S = {} THEN 0
    ELSE LET x == CHOOSE y \in S : TRUE IN f[x] + SumOver(f, S \ {x})

\* How many completions have been applied so far.
TotalTests(db) == SumOver([id \in DOMAIN db.statuses |-> db.statuses[id].test_no],
                          DOMAIN db.statuses)

\* The group a status id belongs to, None when there is none.
StatusGroup(db, status_id) ==
    IF status_id \notin DOMAIN db.statuses THEN None
    ELSE LET status == db.statuses[status_id]
         IN  IF status.row_id \notin DOMAIN db.records[status.table_type] THEN None
             ELSE db.records[status.table_type][status.row_id].group_id

(***************************************************************************)
(* Backup and restart: save_all (dealer/dealer.py), sqlite_export and      *)
(* sqlite_import (db/mem_db_utils.py), delete_all_data (db/db_init.py).    *)
(***************************************************************************)
StoreTables == TableSet \cup {STATUS_TABLE_TYPE}

\* The sqlite file after delete_all_data: no row in any table.
EmptyStore == [t \in StoreTables |-> EmptyMap]

\* The columns a row is written with: the aliases table has no status_id.
project(table_type, row) ==
    IF table_type = ALIASES_TABLE_TYPE THEN [row EXCEPT !.status_id = None] ELSE row

\* The tuple a table of the sqlite file holds at most once.
StoreKey(table_type, row) ==
    CASE table_type = SERVICES_TABLE_TYPE ->
             ServiceUnique(row.type, row.af, row.proto, row.ip, row.port)
      [] table_type = IMPORTS_TABLE_TYPE ->
             ImportUnique(row.import_type, row.af, row.ip, row.port, row.fqn)
      [] table_type = ALIASES_TABLE_TYPE -> AliasUnique(row.af, row.fqn)
      [] OTHER -> <<row.id>>

Rows(db, table_type) ==
    IF table_type = STATUS_TABLE_TYPE THEN db.statuses ELSE db.records[table_type]

\* sqlite_export: every row is inserted in the order of its id.  An insert
\* that meets a row of the same key already written raises IntegrityError and
\* is skipped; an insert of a row in faults raises another error, which is
\* logged, and the loop goes on.
sqlite_export(db, faults) ==
    [t \in StoreTables |->
        LET rows == Rows(db, t)
            written == {i \in DOMAIN rows :
                           /\ <<t, i>> \notin faults
                           /\ \A j \in DOMAIN rows :
                                 (j < i /\ <<t, j>> \notin faults)
                                     => StoreKey(t, rows[j]) # StoreKey(t, rows[i])}
        IN  [i \in written |-> project(t, rows[i])]]

\* save_all: BEGIN, delete_all_data and sqlite_export in one transaction,
\* rolled back when one of them raises (fatal), committed otherwise.
save_all(db, store, faults, fatal) ==
    IF fatal THEN store ELSE sqlite_export(db, faults)

\* The ids of a table in the order load_objects returns them (ORDER BY id).
RECURSIVE SortedIds(_)
SortedIds(S) ==
    IF S = {} THEN <<>>
    ELSE LET m == CHOOSE x \in S : \A y \in S : x <= y
         IN  <<m>> \o SortedIds(S \ {m})

\* group_maps[table_type]: the group ids in the order they are first seen,
\* each with the ids of its rows.
GroupMapAdd(group_map, group_id, id) ==
    IF \E k \in 1..Len(group_map) : group_map[k][1] = group_id
    THEN [k \in 1..Len(group_map) |->
             IF group_map[k][1] = group_id
             THEN <<group_id, Append(group_map[k][2], id)>>
             ELSE group_map[k]]
    ELSE Append(group_map, <<group_id, <<id>>>>)

\* The body of the loop over the rows of one table.  A row whose group_id is
\* None stops the import at group_id + 1 (TypeError), a row whose alias is
\* not loaded stops it at records_by_aliases[alias_id] (KeyError); the row
\* is in its table by then.
load_object(st, table_type, obj) ==
    LET db1 == add_id([st.db EXCEPT !.records[table_type] = MapPut(@, obj.id, obj)],
                      table_type, obj.id + 1)
    IN  IF obj.group_id = None
        THEN [db |-> db1, group_map |-> st.group_map, ok |-> FALSE]
        ELSE LET db2 == add_id(db1, GROUPS_TABLE_TYPE, obj.group_id + 1)
                 gm == GroupMapAdd(st.group_map, obj.group_id, obj.id)
                 db3 == [db2 EXCEPT !.uniques[table_type] =
                                        @ \cup {StoreKey(table_type, obj)}]
             IN  IF table_type = ALIASES_TABLE_TYPE
                 THEN [db |-> add_alias_by_ip(
                                  [db3 EXCEPT !.records_by_aliases =
                                                  MapPut(@, obj.id, <<>>)],
                                  obj.id),
                       group_map |-> gm, ok |-> TRUE]
                 ELSE IF obj.alias_id = None
                 THEN [db |-> db3, group_map |-> gm, ok |-> TRUE]
                 ELSE IF obj.alias_id \notin DOMAIN db3.records_by_aliases
                 THEN [db |-> db3, group_map |-> gm, ok |-> FALSE]
                 ELSE [db |-> [db3 EXCEPT !.records_by_aliases[obj.alias_id] =
                                              Append(@, <<table_type, obj.id>>)],
                       group_map |-> gm, ok |-> TRUE]

RECURSIVE load_table(_, _, _, _)
load_table(st, table_type, rows, ids) ==
    IF ids = <<>> \/ ~st.ok THEN st
    ELSE load_table(load_object(st, table_type, rows[Head(ids)]),
                    table_type, rows, Tail(ids))

\* The pass that points every loaded row at its status row.
fix_status_ids(db) ==
    [db EXCEPT !.records =
        [t \in DOMAIN @ |->
            [id \in DOMAIN @[t] |->
                LET mine == {sid \in DOMAIN db.statuses :
                                /\ db.statuses[sid].table_type = t
                                /\ db.statuses[sid].row_id = id}
                IN  IF mine = {} THEN @[t][id]
                    ELSE [@[t][id] EXCEPT !.status_id =
                             CHOOSE sid \in mine : \A o \in mine : o <= sid]]]]

\* The pass that registers every group as work in init.  The status of the
\* first row of a group is looked up (KeyError when it was not loaded).
RECURSIVE add_groups(_, _, _, _)
add_groups(db, table_type, group_map, now) ==
    IF group_map = <<>> THEN [db |-> db, ok |-> TRUE]
    ELSE LET group_id == Head(group_map)[1]
             group == Head(group_map)[2]
             first == db.records[table_type][group[1]]
         IN  IF first.status_id \notin DOMAIN db.statuses
             THEN [db |-> db, ok |-> FALSE]
             ELSE add_groups(MemDB_add_work(db, first.af, table_type, group,
                                            group_id, STATUS_INIT, now),
                             table_type, Tail(group_map), now)

\* sqlite_import into the MemDB of a process that has just started.
sqlite_import(store, now) ==
    LET statuses == store[STATUS_TABLE_TYPE]
        db0 == [MemDB EXCEPT
                  !.statuses = statuses,
                  !.ids[STATUS_TABLE_TYPE] =
                      IF DOMAIN statuses = {} THEN @
                      ELSE Max(@, 1 + CHOOSE m \in DOMAIN statuses :
                                         \A o \in DOMAIN statuses : o <= m)]
        load(st, t) == load_table([st EXCEPT !.group_map = <<>>], t, store[t],
                                  SortedIds(DOMAIN store[t]))
        a == load([db |-> db0, group_map |-> <<>>, ok |-> TRUE], ALIASES_TABLE_TYPE)
        i == load(a, IMPORTS_TABLE_TYPE)
        s == load(i, SERVICES_TABLE_TYPE)
    IN  IF ~s.ok THEN [db |-> s.db, ok |-> FALSE]
        ELSE LET ga == add_groups(fix_status_ids(s.db), ALIASES_TABLE_TYPE,
                                  a.group_map, now)
                 gi == IF ga.ok
                       THEN add_groups(ga.db, IMPORTS_TABLE_TYPE, i.group_map, now)
                       ELSE ga
                 gs == IF gi.ok
                       THEN add_groups(gi.db, SERVICES_TABLE_TYPE, s.group_map, now)
                       ELSE gi
             IN  gs

\* The startup hook: sqlite_import, then the merge of the seed files; an
\* exception of the first skips the second.
main(store, now) ==
    LET r == sqlite_import(store, now)
    IN  IF r.ok THEN [db |-> insert_from_lines(r.db, SeedLines, now), ok |-> TRUE]
        ELSE r

(***************************************************************************)
(* The public listing: compute_service_score and build_server_list         *)
(* (dealer/dealer_utils.py).  Scores are fixed-point numbers, SCORE_ONE    *)
(* standing for 1.0; a quotient is rounded down to that resolution.        *)
(***************************************************************************)
SCORE_ONE == 1000

UNTESTED == 100

\* 1.0 - math.exp(-test_no / 50.0) for test_no = 0, 1, 2, ... in thousandths.
SMOOTHING == <<0, 19, 39, 58, 76, 95, 113, 130, 147>>

Min(a, b) == IF a < b THEN a ELSE b

smoothing_factor(test_no) == SMOOTHING[Min(test_no, Len(SMOOTHING) - 1) + 1]

\* test_factor that counts a failure in favour of the server.
test_factor_rewarding(failed_tests, test_no) ==
    IF test_no = 0
    THEN SCORE_ONE
    ELSE SCORE_ONE + (failed_tests * SCORE_ONE) \div test_no

\* 1.0 - failed_tests / (test_no + 1e-9); the 1e-9 is below the resolution.
\* With test_no = 0 the quotient is failed_tests * 1e9: UNTESTED stands for
\* that factor, any value of which gives the same score, the smoothing
\* factor being 0 then.
test_factor(failed_tests, test_no) ==
    IF test_no = 0
    THEN SCORE_ONE - failed_tests * SCORE_ONE * UNTESTED
    ELSE SCORE_ONE - (failed_tests * SCORE_ONE) \div test_no

compute_service_score(status) ==
    LET failed_tests == Max(status.failed_tests, 0)
        test_no == Max(status.test_no, 0)
        uptime == Max(status.uptime, 0)
        max_uptime == Max(status.max_uptime, 0)
        uptime_ratio == IF max_uptime > 0
                        THEN Min(Max((uptime * SCORE_ONE) \div max_uptime, 0), SCORE_ONE)
                        ELSE 0
        quality_score ==
            (((test_factor(failed_tests, test_no) * ((uptime_ratio + SCORE_ONE) \div 2))
                \div SCORE_ONE) * smoothing_factor(test_no)) \div SCORE_ONE
    IN  Min(Max(quality_score, 0), SCORE_ONE)

\* Triples without the TCP lists.
Triples_udp == {<<st, af, proto>> : st \in Range(SERVICE_TYPES), af \in AfSet,
                                    proto \in {UDP}}

\* Every (service type, af, proto) the listing is prepopulated with.
Triples == {<<st, af, proto>> : st \in Range(SERVICE_TYPES), af \in AfSet,
                                proto \in {UDP, TCP}}

RECURSIVE SumSeq(_)
SumSeq(q) == IF q = <<>> THEN 0 ELSE Head(q) + SumSeq(Tail(q))

\* One group of the listing: its rows with the status fields and the score.
\* A row without a status row gets no score of its own; when a row of the
\* group was scored every row carries the mean.
listed_group(db, group_id) ==
    LET ids == db.groups[group_id].group
        row(i) == db.records[SERVICES_TABLE_TYPE][ids[i]]
        has_status(i) == row(i).status_id \in DOMAIN db.statuses
        scored == SelectSeq([i \in 1..Len(ids) |-> i], LAMBDA i : has_status(i))
        scores == [k \in 1..Len(scored) |->
                      compute_service_score(db.statuses[row(scored[k]).status_id])]
    IN  [i \in 1..Len(ids) |->
            [id |-> ids[i], group_id |-> group_id,
             type |-> row(i).type, af |-> row(i).af, proto |-> row(i).proto,
             score |-> IF scores = <<>> THEN None
                       ELSE SumSeq(scores) \div Len(scores)]]

\* sort_key that puts the lowest score first.
sort_key_ascending(group) == IF group[1].score = None THEN 0 ELSE 0 - group[1].score

\* The key list.sort orders the groups of a list by.
sort_key(group) == IF group[1].score = None THEN 0 ELSE group[1].score

\* list.sort(key, reverse=True): descending, groups of equal key in the
\* order they were appended.
RECURSIVE sort_reverse(_)
sort_reverse(list) ==
    IF list = <<>> THEN <<>>
    ELSE LET last == list[Len(list)]
             front == sort_reverse(SubSeq(list, 1, Len(list) - 1))
             ahead == SelectSeq(front, LAMBDA g : sort_key(g) >= sort_key(last))
             behind == SelectSeq(front, LAMBDA g : sort_key(g) < sort_key(last))
         IN  ahead \o <<last>> \o behind

build_server_list(db, now) ==
    LET order == SortedIds(DOMAIN db.groups)
        services == SelectSeq(order, LAMBDA g :
                        /\ db.groups[g].table_type = SERVICES_TABLE_TYPE
                        /\ db.groups[g].group # <<>>)
        of_triple(tr) == SelectSeq(services, LAMBDA g :
                            LET first == db.records[SERVICES_TABLE_TYPE][db.groups[g].group[1]]
                            IN  <<first.type, first.af, first.proto>> = tr)
    IN  [lists |-> [tr \in Triples |->
                      sort_reverse([k \in 1..Len(of_triple(tr)) |->
                                       listed_group(db, of_triple(tr)[k])])],
         timestamp |-> now]

\* Where the two coroutines that call save_all are: refresh_server_cache,
\* asleep between its rounds, and shutdown_event, idle until the signal.
\* Inside save_all a coroutine is connected, then has executed BEGIN
\* (begun), then holds the write lock of the file (writing); held is the
\* store as it was when the first row was written.
\* threads: the threads of the pool the routes declared with def run in,
\* each with the group its /work has read at the head of a queue and the
\* group it has answered with.
Threads == 1..MaxThreads

IdleThread == [pc |-> "idle", group_id |-> None, table_type |-> None,
               af |-> NoneStr, returned |-> None]

\* logged: the exceptions refresh_server_cache has logged.
\* worker: a worker process between two calls of process_work, with the
\* work it fetched, what its probe found, the pair worker() returned, and
\* how often each group was handed to it.
IdleWorker == [pc |-> "idle", table_type |-> None, group_id |-> None,
               id |-> None, status_ids |-> <<>>, probe |-> None,
               is_success |-> None, posted |-> 0, fetched |-> EmptyMap]

NoTasks == [refresh |-> "sleep", shutdown |-> "idle", held |-> <<>>,
            threads |-> [th \in Threads |-> IdleThread],
            worker |-> IdleWorker, logged |-> 0]

(***************************************************************************)
(* The state machine.                                                      *)
(***************************************************************************)
Init ==
    /\ mem_db = insert_from_lines(MemDB, SeedLines, StartClock)
    /\ clock = StartClock
    /\ reply = NoReply
    /\ dealt_at = EmptyMap
    /\ work_queue = WorkQueue
    /\ sqlite_db = EmptyStore
    /\ server_cache = <<>>
    /\ tasks = NoTasks

\* time.time() advances.
Tick ==
    /\ clock < StartClock + MaxTicks * TickStep
    /\ clock' = clock + TickStep
    /\ UNCHANGED <<mem_db, reply, dealt_at, work_queue, sqlite_db, server_cache, tasks>>

GetWork(stack_type, table_type, current_time, monitor_frequency) ==
    \E r \in {api_get_work(mem_db, stack_type, table_type, current_time,
                          monitor_frequency, clock)} :
        /\ mem_db' = r.db
        /\ reply' = [NoReply EXCEPT
                       !.op = "work",
                       !.code = 200,
                       !.group_id = r.group_id,
                       !.rows = r.rows,
                       !.from = r.from,
                       !.table_type = r.table_type,
                       !.af = r.af,
                       !.elapsed = r.elapsed,
                       !.mon_freq = IF r.group_id = None THEN None
                                    ELSE IF monitor_frequency # 0 THEN monitor_frequency
                                    ELSE MONITOR_FREQUENCY,
                       !.since_dealt = IF r.group_id \in DOMAIN dealt_at
                                       THEN clock - dealt_at[r.group_id] ELSE None]
        /\ dealt_at' = IF r.group_id = None THEN dealt_at
                       ELSE MapPut(dealt_at, r.group_id, clock)
        /\ UNCHANGED <<clock, work_queue, sqlite_db, server_cache, tasks>>

\* The groups a /complete payload is applied to.
RECURSIVE CompletedGroups(_, _)
CompletedGroups(db, statuses) ==
    IF statuses = <<>> THEN {}
    ELSE IF mark_complete_raises(db, Head(statuses).status_id)
         THEN CompletedGroups(db, Tail(statuses))
         ELSE {StatusGroup(db, Head(statuses).status_id)}
                  \cup CompletedGroups(db, Tail(statuses))

Forget(f, S) == [x \in (DOMAIN f) \ S |-> f[x]]

Complete(statuses) ==
    \E r \in {api_work_done(mem_db, statuses, <<>>, clock)} :
        /\ mem_db' = r.db
        /\ reply' = [NoReply EXCEPT !.op = "complete", !.code = 200,
                                    !.results = r.results]
        /\ dealt_at' = Forget(dealt_at, CompletedGroups(mem_db, statuses))
        /\ UNCHANGED <<clock, work_queue, sqlite_db, server_cache, tasks>>

Insert(imports_list, status_id) ==
    \E r \in {api_insert_services(mem_db, imports_list, status_id, clock)} :
        /\ mem_db' = r.db
        /\ reply' = [NoReply EXCEPT !.op = "insert", !.ok = r.ok,
                                    !.code = IF r.ok THEN 200 ELSE 500]
        /\ dealt_at' = IF r.ok THEN Forget(dealt_at, {StatusGroup(mem_db, status_id)})
                       ELSE dealt_at
        /\ UNCHANGED <<clock, work_queue, sqlite_db, server_cache, tasks>>

\* The exploration stops at MaxTests completions and MaxServiceRows rows.
MayComplete(n, max) == TotalTests(mem_db) + n <= max

MayInsert ==
    Cardinality(DOMAIN mem_db.records[SERVICES_TABLE_TYPE]) < MaxServiceRows

\* Completions reported with the dealer's own time.
PlainStatusLists == {l \in StatusLists : l[1].t = 0}

Next ==
    \/ Tick
    \/ \E stack_type \in StackChoices, table_type \in TableChoices, w \in WorkTimes :
          GetWork(stack_type, table_type, w[1], w[2])
    \/ \E statuses \in PlainStatusLists :
          MayComplete(Len(statuses), MaxSchedTests) /\ Complete(statuses)
    \/ \E sid \in KnownImportStatuses :
          MayInsert /\ MayComplete(1, MaxSchedTests) /\ Insert(<<StunChange4>>, sid)

Spec == Init /\ [][Next]_vars

\* Polling by unfiltered dual-stack workers only.
NextPoll ==
    \/ Tick
    \/ \E w \in WorkTimes : GetWork(DUEL_STACK, None, w[1], w[2])
    \/ \E statuses \in PlainStatusLists :
          MayComplete(Len(statuses), MaxSchedTests) /\ Complete(statuses)
    \/ \E sid \in KnownImportStatuses :
          MayInsert /\ MayComplete(1, MaxSchedTests) /\ Insert(<<StunChange4>>, sid)

SpecPoll == Init /\ [][NextPoll]_vars

\* The completion side alone: every completion time, more completions.
NextStatus ==
    \/ Tick
    \/ \E statuses \in StatusLists :
          MayComplete(Len(statuses), MaxTests) /\ Complete(statuses)
    \/ \E sid \in ImportStatusChoices :
          MayInsert /\ MayComplete(1, MaxTests) /\ Insert(<<StunMap1>>, sid)

SpecStatus == Init /\ [][NextStatus]_vars

\* Workers reporting validated imports, with every payload, while
\* production workers poll and report.
NextInsert ==
    \/ Tick
    \/ GetWork(DUEL_STACK, None, 0, 0)
    \/ \E statuses \in PlainStatusLists :
          MayComplete(Len(statuses), MaxSchedTests) /\ Complete(statuses)
    \/ \E l \in ImportsLists, sid \in ImportStatusChoices :
          MayInsert /\ MayComplete(1, MaxSchedTests) /\ Insert(l, sid)

SpecInsert == Init /\ [][NextInsert]_vars

UpdateAlias(alias_id, ip, current_time) ==
    \E r \in {api_update_alias(mem_db, alias_id, ip, current_time, clock)} :
        /\ mem_db' = r.db
        /\ reply' = [NoReply EXCEPT !.op = "alias", !.ok = r.ok,
                                    !.code = IF r.ok THEN 200 ELSE 500]
        /\ UNCHANGED <<clock, dealt_at, work_queue, sqlite_db, server_cache, tasks>>

MayInsertAlias ==
    Cardinality(DOMAIN mem_db.records[SERVICES_TABLE_TYPE]) < MaxAliasRows

\* Workers resolving the seeded alias while services found through it are
\* inserted and probed.
NextAlias ==
    \/ Tick
    \/ \E statuses \in PlainStatusLists :
          MayComplete(Len(statuses), MaxAliasTests) /\ Complete(statuses)
    \/ \E g \in AliasGroups, sid \in KnownImportStatuses :
          MayInsertAlias /\ MayComplete(1, MaxAliasTests) /\ Insert(<<g>>, sid)
    \/ \E alias_id \in AliasIds, ip \in AliasIps, current_time \in AliasTimes :
          UpdateAlias(alias_id, ip, current_time)

SpecAlias == Init /\ [][NextAlias]_vars

\* A request turned away by localhost_only.
Forbidden(op, client_host) ==
    /\ reply' = [NoReply EXCEPT !.op = op, !.ok = FALSE, !.code = 403,
                                !.client = client_host]
    /\ UNCHANGED <<mem_db, clock, dealt_at, work_queue, sqlite_db, server_cache, tasks>>

HttpWork(client_host, stack_type, table_type, current_time, monitor_frequency) ==
    IF localhost_only_raises(client_host) THEN Forbidden("work", client_host)
    ELSE GetWork(stack_type, table_type, current_time, monitor_frequency)

HttpComplete(client_host, statuses) ==
    IF localhost_only_raises(client_host) THEN Forbidden("complete", client_host)
    ELSE Complete(statuses)

HttpInsert(client_host, imports_list, status_id) ==
    IF localhost_only_raises(client_host) THEN Forbidden("insert", client_host)
    ELSE Insert(imports_list, status_id)

HttpAlias(client_host, alias_id, ip, current_time) ==
    IF localhost_only_raises(client_host) THEN Forbidden("alias", client_host)
    ELSE UpdateAlias(alias_id, ip, current_time)

HttpServers(client_host) ==
    /\ reply' = [NoReply EXCEPT !.op = "servers", !.code = 200,
                                !.client = client_host]
    /\ UNCHANGED <<mem_db, clock, dealt_at, work_queue, sqlite_db, server_cache, tasks>>

\* Requests arriving from loopback and from elsewhere.
NextHttp ==
    \/ Tick
    \/ \E client_host \in ClientHosts :
          HttpWork(client_host, DUEL_STACK, None, 0, 0)
    \/ \E client_host \in ClientHosts, statuses \in PlainStatusLists :
          MayComplete(Len(statuses), MaxSchedTests) /\ HttpComplete(client_host, statuses)
    \/ \E client_host \in ClientHosts, sid \in KnownImportStatuses :
          MayInsert /\ MayComplete(1, MaxSchedTests)
              /\ HttpInsert(client_host, <<AliasSvcPrivate>>, sid)
    \/ \E client_host \in ClientHosts, alias_id \in AliasIds :
          HttpAlias(client_host, alias_id, "8.8.8.8", 0)
    \/ \E client_host \in ClientHosts : HttpServers(client_host)

SpecHttp == Init /\ [][NextHttp]_vars

\* The periodic backup, and the one of the shutdown hook.
SaveAll(faults, fatal) ==
    /\ sqlite_db' = save_all(mem_db, sqlite_db, faults, fatal)
    /\ reply' = [NoReply EXCEPT !.op = "save", !.ok = ~fatal]
    /\ UNCHANGED <<mem_db, clock, dealt_at, work_queue, server_cache, tasks>>

\* The dealer process is started again on the sqlite file.
Restart ==
    \E r \in {main(sqlite_db, clock)} :
        /\ mem_db' = r.db
        /\ reply' = [NoReply EXCEPT !.op = "restart", !.ok = r.ok]
        /\ dealt_at' = EmptyMap
        /\ server_cache' = <<>>
        /\ tasks' = NoTasks
        /\ UNCHANGED <<clock, work_queue, sqlite_db>>

\* The rows whose insert into the sqlite file may fail unexpectedly.
FaultChoices ==
    {{}} \cup {{<<SERVICES_TABLE_TYPE, id>>} :
                  id \in DOMAIN mem_db.records[SERVICES_TABLE_TYPE]}

\* A backup that loses one status row or one alias row: the rows that refer
\* to it are written, it is not.
DanglingFaults ==
    {{<<STATUS_TABLE_TYPE, id>>} : id \in DOMAIN mem_db.statuses}
        \cup {{<<ALIASES_TABLE_TYPE, id>>} :
                 id \in DOMAIN mem_db.records[ALIASES_TABLE_TYPE]}

\* imports_list of the /insert requests explored with backups and restarts.
SnapLists == {<<StunMap1>>, <<StunChange4>>, <<StunMapTwice, Mqtt1>>}

\* Backups and restarts while imports are validated and services probed.
NextSnap ==
    \/ Tick
    \/ \E statuses \in PlainStatusLists :
          MayComplete(Len(statuses), MaxSchedTests) /\ Complete(statuses)
    \/ \E l \in SnapLists, sid \in KnownImportStatuses :
          MayInsert /\ MayComplete(1, MaxSchedTests) /\ Insert(l, sid)
    \/ \E faults \in FaultChoices, fatal \in BOOLEAN : SaveAll(faults, fatal)
    \/ Restart

SpecSnap == Init /\ [][NextSnap]_vars

\* One round of refresh_server_cache with nothing served in between: the
\* listing is rebuilt, then the store is saved.
RefreshCycle ==
    /\ server_cache' = build_server_list(mem_db, clock)
    /\ sqlite_db' = save_all(mem_db, sqlite_db, {}, FALSE)
    /\ reply' = [NoReply EXCEPT !.op = "refresh"]
    /\ UNCHANGED <<mem_db, clock, dealt_at, work_queue, tasks>>

\* The groups workers report while the listing is rebuilt: two stun-map
\* servers of one (type, af, proto) and a stun-change group of four.
CatGroups == {StunMap1, AliasSvcPrivate, StunChange4}

\* Completions of probes of services, reported with the dealer's own time.
CatStatusLists ==
    {<<[status_id |-> id, is_success |-> ok, t |-> 0]>> :
        id \in {x \in DOMAIN mem_db.statuses :
                   mem_db.statuses[x].table_type = SERVICES_TABLE_TYPE},
        ok \in {0, 1}}

\* The status ids of the stun imports, whose validation finds these groups.
StunImportStatuses ==
    {mem_db.records[IMPORTS_TABLE_TYPE][id].status_id :
        id \in {x \in DOMAIN mem_db.records[IMPORTS_TABLE_TYPE] :
                   mem_db.records[IMPORTS_TABLE_TYPE][x].import_type = STUN_MAP_TYPE}}

MayInsertCat(g) ==
    Cardinality(DOMAIN mem_db.records[SERVICES_TABLE_TYPE]) + Len(g) <= MaxCatRows

\* Services are inserted and probed while the listing is rebuilt.
NextCat ==
    \/ \E statuses \in CatStatusLists :
          MayComplete(Len(statuses), MaxCatTests) /\ Complete(statuses)
    \/ \E g \in CatGroups, sid \in StunImportStatuses :
          MayInsertCat(g) /\ MayComplete(1, MaxCatTests) /\ Insert(<<g>>, sid)
    \/ RefreshCycle

SpecCat == Init /\ [][NextCat]_vars

\* The positions of a coroutine between BEGIN and commit or rollback.
InTransaction == {"begun", "writing"}

Exited == tasks.shutdown \in {"done", "failed"}

Other(t) == IF t = "refresh" THEN "shutdown" ELSE "refresh"

\* refresh_server_cache wakes up: the listing is rebuilt and save_all is
\* entered, up to its first await.
RefreshWakes ==
    /\ tasks.refresh = "sleep"
    /\ ~Exited
    /\ server_cache' = build_server_list(mem_db, clock)
    /\ tasks' = [tasks EXCEPT !.refresh = "connected"]
    /\ reply' = [NoReply EXCEPT !.op = "refresh"]
    /\ UNCHANGED <<mem_db, clock, dealt_at, work_queue, sqlite_db>>

\* The kill signal: shutdown_event enters save_all.  No request is served
\* from then on; the refresh task is neither cancelled nor waited for.
ShutdownSignal ==
    /\ tasks.shutdown = "idle"
    /\ tasks' = [tasks EXCEPT !.shutdown = "connected"]
    /\ reply' = [NoReply EXCEPT !.op = "shutdown"]
    /\ UNCHANGED <<mem_db, clock, dealt_at, work_queue, sqlite_db, server_cache>>

\* await sqlite_db.execute("BEGIN") on the coroutine's own connection: a
\* deferred transaction, which takes no lock.
SaveBegin(t) ==
    /\ tasks[t] = "connected"
    /\ ~Exited
    /\ tasks' = [tasks EXCEPT ![t] = "begun"]
    /\ UNCHANGED <<mem_db, clock, reply, dealt_at, work_queue, sqlite_db, server_cache>>

\* The first DELETE of delete_all_data.  It takes the write lock of the
\* file; when the other connection holds it the statement raises (database
\* is locked), save_all rolls back and raises: refresh_server_cache logs
\* that and sleeps, shutdown_event ends without a backup.
SaveWrite(t) ==
    /\ tasks[t] = "begun"
    /\ ~Exited
    /\ IF tasks[Other(t)] = "writing"
       THEN tasks' = [tasks EXCEPT ![t] = IF t = "refresh" THEN "sleep" ELSE "failed"]
       ELSE tasks' = [tasks EXCEPT ![t] = "writing", !.held = mem_db]
    /\ UNCHANGED <<mem_db, clock, reply, dealt_at, work_queue, sqlite_db, server_cache>>

\* The rest of sqlite_export and the commit.  The rows are read while the
\* requests go on; the file gets the store as it was at the first write or
\* as it is at the last.
SaveCommit(t) ==
    /\ tasks[t] = "writing"
    /\ ~Exited
    /\ \E db \in {tasks.held, mem_db} :
          sqlite_db' = save_all(db, sqlite_db, {}, FALSE)
    /\ tasks' = [tasks EXCEPT ![t] = IF t = "refresh" THEN "sleep" ELSE "done",
                              !.held = <<>>]
    /\ UNCHANGED <<mem_db, clock, reply, dealt_at, work_queue, server_cache>>

\* Requests served until the signal.
Serving == tasks.shutdown = "idle"

\* The dealer serving workers while its refresh task runs, up to its
\* shutdown.
NextTasks ==
    \/ Serving /\ GetWork(DUEL_STACK, None, 0, 0)
    \/ \E statuses \in PlainStatusLists :
          Serving /\ MayComplete(Len(statuses), MaxSchedTests) /\ Complete(statuses)
    \/ RefreshWakes
    \/ ShutdownSignal
    \/ \E t \in {"refresh", "shutdown"} : SaveBegin(t)
    \/ \E t \in {"refresh", "shutdown"} : SaveWrite(t)
    \/ \E t \in {"refresh", "shutdown"} : SaveCommit(t)

SpecTasks == Init /\ [][NextTasks]_vars

\* /work on a thread of the pool, up to the point where allocate_work has
\* read the group at the head of a sublist that passes the time checks.
\* With no such group the request is answered with [].
WorkScan(th, stack_type, table_type) ==
    /\ tasks.threads[th].pc = "idle"
    /\ \E r \in {api_get_work(mem_db, stack_type, table_type, 0, 0, clock)} :
          tasks' = [tasks EXCEPT !.threads[th] =
                       IF r.group_id = None
                       THEN [IdleThread EXCEPT !.pc = "returned"]
                       ELSE [IdleThread EXCEPT !.pc = "read",
                                               !.group_id = r.group_id,
                                               !.table_type = r.table_type,
                                               !.af = r.af]]
    /\ UNCHANGED <<mem_db, clock, reply, dealt_at, work_queue, sqlite_db, server_cache>>

\* The rest of allocate_work on that thread: wq.move_work(group_id,
\* STATUS_DEALT) and the answer.
WorkMove(th) ==
    /\ tasks.threads[th].pc = "read"
    /\ LET t == tasks.threads[th]
       IN  /\ mem_db' = [mem_db EXCEPT !.work[t.table_type][t.af] =
                            move_work(@, t.group_id, STATUS_DEALT, clock)]
           /\ tasks' = [tasks EXCEPT !.threads[th].pc = "returned",
                                     !.threads[th].returned = t.group_id]
           /\ reply' = [NoReply EXCEPT !.op = "work", !.code = 200,
                                       !.group_id = t.group_id,
                                       !.rows = mem_db.groups[t.group_id].group,
                                       !.table_type = t.table_type,
                                       !.af = t.af]
           /\ dealt_at' = MapPut(dealt_at, t.group_id, clock)
    /\ UNCHANGED <<clock, work_queue, sqlite_db, server_cache>>

\* Workers polling at one moment, each request on a thread of its own,
\* while validated imports are reported.
NextThreads ==
    \/ \E th \in Threads, stack_type \in StackChoices, table_type \in TableChoices :
          WorkScan(th, stack_type, table_type)
    \/ \E th \in Threads : WorkMove(th)
    \/ \E sid \in KnownImportStatuses :
          MayInsert /\ MayComplete(1, MaxSchedTests) /\ Insert(<<StunMap1>>, sid)

SpecThreads == Init /\ [][NextThreads]_vars

\* The age from which on a queue entry passes every time check.
MaxAge == MONITOR_FREQUENCY + TickStep

\* The seconds between two polls: just past the worker timeout, or a whole
\* monitoring period.
FairSteps == {TickStep, MONITOR_FREQUENCY}

\* time.time() advances after at least one /work was served.  Only the age
\* of a timestamp matters to allocate_work, and none beyond MaxAge: the
\* advance is written as every timestamp falling back against the clock,
\* down to an age of MaxAge.
TimePasses(step) ==
    /\ reply.op = "work"
    /\ mem_db' = [mem_db EXCEPT !.work =
                     [t \in DOMAIN @ |-> [af \in DOMAIN @[t] |->
                         [@[t][af] EXCEPT !.timestamps =
                             [g \in DOMAIN @ |-> Max(@[g] - step, clock - MaxAge)]]]]]
    /\ dealt_at' = [g \in DOMAIN dealt_at |-> Max(dealt_at[g] - step, clock - MaxAge)]
    /\ reply' = NoReply
    /\ UNCHANGED <<clock, work_queue, sqlite_db, server_cache, tasks>>

\* Unfiltered dual-stack workers polling without end while time advances.
NextFair ==
    \/ \E step \in FairSteps : TimePasses(step)
    \/ GetWork(DUEL_STACK, None, 0, 0)

\* Sustained polling with time advancing: /work is served again and again,
\* and between two advances of the clock at least once.
SpecFair ==
    /\ Init
    /\ [][NextFair]_vars
    /\ WF_vars(\E step \in FairSteps : TimePasses(step))
    /\ WF_vars(GetWork(DUEL_STACK, None, 0, 0))

\* The statuses compute_service_score is applied to.
ScoreUptimes == {0, 60, 120}

ScoreStatuses ==
    [test_no : 0..MaxScoreTests, failed_tests : 0..MaxScoreTests,
     uptime : ScoreUptimes, max_uptime : ScoreUptimes]

\* The seeded store with one stun-map service, validated at startup time.
ScoreStore ==
    api_insert_services(insert_from_lines(MemDB, SeedLines, StartClock),
                        <<StunMap1>>, 2, StartClock).db

\* The status row of that service.
ScoredStatus(db) ==
    db.statuses[db.records[SERVICES_TABLE_TYPE][1].status_id]

\* A dealer whose one service has been probed: its status holds any counts
\* that probes can leave.
InitScore ==
    /\ \E st \in ScoreStatuses :
          /\ st.failed_tests <= st.test_no
          /\ st.uptime <= st.max_uptime
          /\ mem_db = [ScoreStore EXCEPT
                         !.statuses[ScoredStatus(ScoreStore).id] =
                             [@ EXCEPT !.test_no = st.test_no,
                                       !.failed_tests = st.failed_tests,
                                       !.uptime = st.uptime,
                                       !.max_uptime = st.max_uptime]]
    /\ clock = StartClock
    /\ reply = NoReply
    /\ dealt_at = EmptyMap
    /\ work_queue = WorkQueue
    /\ sqlite_db = EmptyStore
    /\ server_cache = <<>>
    /\ tasks = NoTasks

NextScore == RefreshCycle

SpecScore == InitScore /\ [][NextScore]_vars

(***************************************************************************)
(* One WorkQueue driven by its four operations.  An operation that raises  *)
(* (add_work of an indexed id; move_work or remove_work of an unknown id)  *)
(* leaves the object as it was.                                            *)
(***************************************************************************)
WorkIds == 1..MaxWorkIds

WqAdd(work_id, queue_name) ==
    /\ ~add_work_raises(work_queue, work_id)
    /\ work_queue' = add_work(work_queue, work_id, queue_name, clock)
    /\ UNCHANGED <<mem_db, clock, reply, dealt_at, sqlite_db, server_cache, tasks>>

WqMove(work_id, queue_name) ==
    /\ ~move_work_raises(work_queue, work_id)
    /\ work_queue' = move_work(work_queue, work_id, queue_name, clock)
    /\ UNCHANGED <<mem_db, clock, reply, dealt_at, sqlite_db, server_cache, tasks>>

WqRemove(work_id) ==
    /\ work_id \in DOMAIN work_queue.index
    /\ work_queue' = remove_work(work_queue, work_id)
    /\ UNCHANGED <<mem_db, clock, reply, dealt_at, sqlite_db, server_cache, tasks>>

WqPop ==
    /\ work_queue' = pop_available(work_queue)
    /\ UNCHANGED <<mem_db, clock, reply, dealt_at, sqlite_db, server_cache, tasks>>

NextWQ ==
    \/ Tick
    \/ \E work_id \in WorkIds, queue_name \in Range(STATUS_TYPES) : WqAdd(work_id, queue_name)
    \/ \E work_id \in WorkIds, queue_name \in Range(STATUS_TYPES) : WqMove(work_id, queue_name)
    \/ \E work_id \in WorkIds : WqRemove(work_id)
    \/ WqPop

SpecWQ == Init /\ [][NextWQ]_vars

(***************************************************************************)
(* Properties.  The order and the eligibility rule below are written from  *)
(* the statements being checked, independently of allocate_work: every     *)
(* queued group is looked at, not only the head of a sublist.              *)
(***************************************************************************)
AllQueues ==
    {mem_db.work[t][af] : t \in TableSet, af \in AfSet} \cup {work_queue}

\* The places <<sublist, position>> at which a work id sits in a queue.
Occurrences(q, work_id) ==
    {pl \in UNION {{<<sk, i>> : i \in 1..Len(q.queues[sk])} : sk \in Range(STATUS_TYPES)} :
        q.queues[pl[1]][pl[2]] = work_id}

QueuedIds(q) ==
    (DOMAIN q.index) \cup UNION {Range(q.queues[sk]) : sk \in Range(STATUS_TYPES)}

\* The queue a registered group lives in.
QueueOf(db, g) == db.work[db.groups[g].table_type][db.groups[g].af]

RefTables(table_type) ==
    IF table_type \in {SERVICES_TABLE_TYPE, ALIASES_TABLE_TYPE, IMPORTS_TABLE_TYPE}
    THEN <<table_type>>
    ELSE <<SERVICES_TABLE_TYPE, ALIASES_TABLE_TYPE, IMPORTS_TABLE_TYPE>>

RefAfs(stack_type) ==
    CASE stack_type = IP4 -> <<IP4>>
      [] stack_type = IP6 -> <<IP6>>
      [] OTHER -> <<IP4, IP6>>

RefSublists == <<STATUS_INIT, STATUS_AVAILABLE, STATUS_DEALT>>

\* The time a request is served at, and the frequency it is served with.
RefCur(current_time) == IF current_time # 0 THEN current_time ELSE clock

RefFreq(monitor_frequency) ==
    IF monitor_frequency # 0 THEN monitor_frequency ELSE MONITOR_FREQUENCY

IndexOf(seq, x) == CHOOSE i \in 1..Len(seq) : seq[i] = x

\* The groups a request with this stack and table filter looks at.
Scanned(db, stack_type, table_type) ==
    {g \in DOMAIN db.groups :
        /\ db.groups[g].table_type \in Range(RefTables(table_type))
        /\ db.groups[g].af \in Range(RefAfs(stack_type))
        /\ QueueOf(db, g).index[g] \in Range(RefSublists)}

Eligible(db, g, cur, freq) ==
    LET q == QueueOf(db, g)
    IN  \/ q.index[g] = STATUS_INIT
        \/ q.index[g] = STATUS_AVAILABLE /\ cur - q.timestamps[g] >= freq
        \/ q.index[g] = STATUS_DEALT /\ cur - q.timestamps[g] >= WORKER_TIMEOUT

\* <<table, address family, sublist, place in the sublist>> of a group.
Rank(db, g, stack_type, table_type) ==
    LET q == QueueOf(db, g)
    IN  << IndexOf(RefTables(table_type), db.groups[g].table_type),
           IndexOf(RefAfs(stack_type), db.groups[g].af),
           IndexOf(RefSublists, q.index[g]),
           IndexOf(q.queues[q.index[g]], g) >>

Earlier(a, b) ==
    \E i \in 1..4 : a[i] < b[i] /\ \A j \in 1..(i - 1) : a[j] = b[j]

\* g is eligible and no eligible group is scanned before it.
FirstEligible(db, g, stack_type, table_type, cur, freq) ==
    /\ g \in Scanned(db, stack_type, table_type)
    /\ Eligible(db, g, cur, freq)
    /\ \A h \in Scanned(db, stack_type, table_type) \ {g} :
          Eligible(db, h, cur, freq) =>
              Earlier(Rank(db, g, stack_type, table_type), Rank(db, h, stack_type, table_type))

\* C1: a group returned by /work is not returned again by a /work served
\* less than WORKER_TIMEOUT seconds later, unless it was completed in between.
NoDoubleDispatch ==
    (reply.op = "work" /\ reply.since_dealt # None) => reply.since_dealt >= WORKER_TIMEOUT

\* C2: in every work queue each queued work id is indexed and sits at exactly
\* one place of exactly one of the four sublists, the one the index names;
\* every registered group is queued in the queue of its table and family.
ExactlyOneSublist ==
    /\ \A q \in AllQueues : \A work_id \in QueuedIds(q) :
          /\ work_id \in DOMAIN q.index
          /\ Cardinality(Occurrences(q, work_id)) = 1
          /\ work_id \in Range(q.queues[q.index[work_id]])
    /\ \A g \in DOMAIN mem_db.groups : g \in DOMAIN QueueOf(mem_db, g).index

\* C2 witness: a standalone queue in which ids were added, moved and taken
\* out again, with two sublists populated.
MovedBetweenSublists ==
    /\ work_queue.queues[STATUS_DEALT] # <<>>
    /\ work_queue.queues[STATUS_DISABLED] # <<>>
    /\ Cardinality(DOMAIN work_queue.index) = 2
    /\ \E work_id \in DOMAIN work_queue.index : work_queue.timestamps[work_id] > StartClock

\* C3 as stated: whenever a group was returned at time t and not completed
\* since, an identical /work request served at t + WORKER_TIMEOUT + 1 or
\* later returns that group.
ReclaimAlways ==
    \A r \in {api_get_work(mem_db, DUEL_STACK, None, 0, 0, clock)} :
        \A g \in DOMAIN dealt_at :
            clock >= dealt_at[g] + WORKER_TIMEOUT + 1 => r.group_id = g

\* C3 amended: a group that sits in dealt since time t is returned again by
\* a /work request that scans its queue with a current time of at least
\* t + WORKER_TIMEOUT, provided no eligible group is scanned before it; the
\* group is then in dealt with a fresh timestamp.
ReclaimWhenFirst ==
    \A stack_type \in StackChoices, table_type \in TableChoices, w \in WorkTimes :
        \A r \in {api_get_work(mem_db, stack_type, table_type, w[1], w[2], clock)} :
            \A g \in DOMAIN dealt_at :
                ( /\ QueueOf(mem_db, g).index[g] = STATUS_DEALT
                  /\ RefCur(w[1]) >= dealt_at[g] + WORKER_TIMEOUT
                  /\ FirstEligible(mem_db, g, stack_type, table_type,
                                   RefCur(w[1]), RefFreq(w[2])) )
                => /\ r.group_id = g
                   /\ QueueOf(r.db, g).index[g] = STATUS_DEALT
                   /\ QueueOf(r.db, g).timestamps[g] = clock

\* C3 witness: /work returned a group from dealt 121 seconds after it had
\* returned it before.
ReclaimedAfterTimeout ==
    /\ reply.op = "work"
    /\ reply.from = STATUS_DEALT
    /\ reply.since_dealt = WORKER_TIMEOUT + 1
    /\ reply.elapsed = WORKER_TIMEOUT + 1

\* C4: a group in available since time t is not returned by a /work request
\* whose current time is below t + monitor_frequency, and it is returned
\* by one whose current time is exactly t + monitor_frequency if no
\* eligible group is scanned before it.
MonitorFrequencyRespected ==
    \A stack_type \in StackChoices, table_type \in TableChoices, w \in WorkTimes :
        \A r \in {api_get_work(mem_db, stack_type, table_type, w[1], w[2], clock)} :
            \A g \in DOMAIN mem_db.groups :
                LET q == QueueOf(mem_db, g)
                    cur == RefCur(w[1])
                    freq == RefFreq(w[2])
                IN  q.index[g] = STATUS_AVAILABLE =>
                      /\ cur < q.timestamps[g] + freq => r.group_id # g
                      /\ ( /\ cur = q.timestamps[g] + freq
                           /\ FirstEligible(mem_db, g, stack_type, table_type, cur, freq) )
                         => r.group_id = g

\* C4 witness: /work returned a group from available exactly one monitor
\* frequency after it had entered available.
ReturnedAtFrequency ==
    /\ reply.op = "work"
    /\ reply.from = STATUS_AVAILABLE
    /\ reply.elapsed = reply.mon_freq

RowsOf(db, table_type, g) ==
    {id \in DOMAIN db.records[table_type] : db.records[table_type][id].group_id = g}

\* C6: /work answers with nothing and changes nothing, or with all the rows
\* of exactly one group, each once; the group is of an address family the
\* stack allows and of the filtered table when one is given; afterwards
\* that group is in dealt and every other group is where it was.
WorkIsOneWholeGroup ==
    \A stack_type \in StackChoices, table_type \in TableChoices, w \in WorkTimes :
        \A r \in {api_get_work(mem_db, stack_type, table_type, w[1], w[2], clock)} :
            IF r.group_id = None
            THEN r.rows = <<>> /\ r.db = mem_db
            ELSE LET g == r.group_id
                     t == mem_db.groups[g].table_type
                     q == QueueOf(mem_db, g)
                     q2 == QueueOf(r.db, g)
                 IN  /\ g \in DOMAIN mem_db.groups
                     /\ Range(r.rows) = RowsOf(mem_db, t, g)
                     /\ Len(r.rows) = Cardinality(RowsOf(mem_db, t, g))
                     /\ \A id \in Range(r.rows) :
                           mem_db.records[t][id].af \in Range(RefAfs(stack_type))
                     /\ t \in Range(RefTables(table_type))
                     /\ q2.index[g] = STATUS_DEALT
                     /\ g \in Range(q2.queues[STATUS_DEALT])
                     /\ \A sk \in Range(STATUS_TYPES) :
                           ll_remove(q2.queues[sk], g) = ll_remove(q.queues[sk], g)
                     /\ \A h \in (DOMAIN q.index) \ {g} :
                           /\ q2.index[h] = q.index[h]
                           /\ q2.timestamps[h] = q.timestamps[h]
                     /\ \A t2 \in TableSet, af2 \in AfSet :
                           <<t2, af2>> # <<t, mem_db.groups[g].af>>
                               => r.db.work[t2][af2] = mem_db.work[t2][af2]
                     /\ [r.db EXCEPT !.work = mem_db.work] = mem_db

\* C6 witness: an IPv6-only worker asking for services was answered with the
\* four rows of a stun-change group.
FourRowsDealt ==
    /\ reply.op = "work"
    /\ Len(reply.rows) = 4
    /\ reply.af = IP6
    /\ QueueOf(mem_db, reply.group_id).index[reply.group_id] = STATUS_DEALT

\* The time a completion is applied with.
RefT(status_info) == IF status_info.t # 0 THEN status_info.t ELSE clock

StatusFieldUpdates ==
    \A statuses \in StatusLists :
        \A r \in {api_work_done(mem_db, statuses, <<>>, clock)} :
            LET status_id == statuses[1].status_id
                t == RefT(statuses[1])
            IN  status_id \in DOMAIN mem_db.statuses =>
                  LET old == mem_db.statuses[status_id]
                      new == r.db.statuses[status_id]
                      gained == IF old.last_uptime = 0 THEN 0
                                ELSE IF t > old.last_uptime THEN t - old.last_uptime ELSE 0
                  IN  /\ new.test_no = old.test_no + 1
                      /\ new.last_status = t
                      /\ new.id = old.id /\ new.row_id = old.row_id
                      /\ new.table_type = old.table_type
                      /\ IF statuses[1].is_success = 1
                         THEN /\ new.uptime = old.uptime + gained
                              /\ new.max_uptime = IF new.uptime > old.max_uptime
                                                  THEN new.uptime ELSE old.max_uptime
                              /\ new.last_uptime = t
                              /\ new.last_success = t
                              /\ new.failed_tests = old.failed_tests
                         ELSE /\ new.failed_tests = old.failed_tests + 1
                              /\ new.uptime = 0
                              /\ new.max_uptime = old.max_uptime
                              /\ new.last_uptime = old.last_uptime
                              /\ new.last_success = old.last_success

\* C8 witness: a status that gained uptime and was then completed with
\* success at a time before its last_uptime, which added nothing.
UptimeKeptByEarlySuccess ==
    \E status_id \in DOMAIN mem_db.statuses :
        LET status == mem_db.statuses[status_id]
        IN  /\ status.uptime = TickStep
            /\ status.last_uptime = EarlyT
            /\ status.last_status = EarlyT
            /\ status.test_no = 3

\* C9: every status has uptime <= max_uptime, and no completion lowers the
\* max_uptime of any status.
UptimeWithinMax ==
    /\ \A status_id \in DOMAIN mem_db.statuses :
          mem_db.statuses[status_id].uptime <= mem_db.statuses[status_id].max_uptime
    /\ \A statuses \in StatusLists :
          \A r \in {api_work_done(mem_db, statuses, <<>>, clock)} :
              \A status_id \in DOMAIN mem_db.statuses :
                  /\ status_id \in DOMAIN r.db.statuses
                  /\ r.db.statuses[status_id].max_uptime
                         >= mem_db.statuses[status_id].max_uptime

\* C9 witness: a status whose uptime was reset by a failure after it had
\* gained uptime, max_uptime keeping the gain.
MaxUptimeOutlivesReset ==
    \E status_id \in DOMAIN mem_db.statuses :
        /\ mem_db.statuses[status_id].uptime = 0
        /\ mem_db.statuses[status_id].max_uptime = TickStep
        /\ mem_db.statuses[status_id].failed_tests = 1

\* C10: every queued group of stun-change services has exactly four
\* rows.
StunChangeGroupsOfFour ==
    \A g \in DOMAIN mem_db.groups :
        LET meta_group == mem_db.groups[g]
        IN  ( /\ meta_group.table_type = SERVICES_TABLE_TYPE
              /\ mem_db.records[SERVICES_TABLE_TYPE][meta_group.group[1]].type
                     = STUN_CHANGE_TYPE )
            => Len(meta_group.group) = 4

\* The uniqueness key of a member of an /insert group, as the claims give it.
MemberKey(service) ==
    <<service.af, service.proto, service.service_type, service.ip, service.port>>

RowKey(row) == <<row.af, row.proto, row.type, row.ip, row.port>>

\* The service groups of a store whose rows are, in order, those of a group.
GroupsFor(db, group) ==
    {g \in DOMAIN db.groups :
        /\ db.groups[g].table_type = SERVICES_TABLE_TYPE
        /\ Len(db.groups[g].group) = Len(group)
        /\ \A i \in 1..Len(group) :
              RowKey(db.records[SERVICES_TABLE_TYPE][db.groups[g].group[i]])
                  = MemberKey(group[i])}

\* A stun-change group with alias_id on some but not all four members.
BadAliasCount(group) ==
    /\ group # <<>>
    /\ group[1].service_type = STUN_CHANGE_TYPE
    /\ Cardinality({i \in 1..Len(group) : group[i].alias_id # None}) \notin {0, 4}

\* C11: an /insert whose group is a stun-change group with alias_id on a
\* count of members other than 0 or 4 leaves the store as it was: the group
\* is not queued and none of its rows is in the services table.
RejectedGroupLeavesNoTrace ==
    \A imports_list \in ImportsLists, status_id \in ImportStatusChoices :
        \A r \in {api_insert_services(mem_db, imports_list, status_id, clock)} :
            (imports_list # <<>> /\ BadAliasCount(imports_list[1]) /\ ~r.ok)
                => /\ GroupsFor(r.db, imports_list[1]) = {}
                   /\ r.db = mem_db

\* Whether the k-th group of an /insert hits a duplicate member when its
\* turn comes, the groups before it having been processed.
HitsDuplicate(db, imports_list, k, now) ==
    \E b \in {insert_groups(db, SubSeq(imports_list, 1, k - 1), now)} :
        b.ok /\ insert_members(b.db, imports_list[k], <<>>, 0).dup

WellFormed(group) == group # <<>> /\ ~BadAliasCount(group)

\* C12: in an /insert whose groups are well formed, a group that hits a
\* duplicate member is skipped and the others are each registered as one
\* new group sitting in the init sublist of the services queue of their
\* address family; the request succeeds.
DuplicateGroupSkipped ==
    \A imports_list \in ImportsLists, status_id \in KnownImportStatuses :
        \A r \in {api_insert_services(mem_db, imports_list, status_id, clock)} :
            LET skipped == {k \in 1..Len(imports_list) :
                               HitsDuplicate(mem_db, imports_list, k, clock)}
                new == (DOMAIN r.db.groups) \ (DOMAIN mem_db.groups)
            IN  (skipped # {} /\ \A k \in 1..Len(imports_list) : WellFormed(imports_list[k]))
                    => /\ r.ok
                       /\ Cardinality(new) = Len(imports_list) - Cardinality(skipped)
                       /\ \A k \in (1..Len(imports_list)) \ skipped :
                             \E g \in new \cap GroupsFor(r.db, imports_list[k]) :
                                 g \in Range(r.db.work[SERVICES_TABLE_TYPE]
                                                [imports_list[k][1].af].queues[STATUS_INIT])

\* An /insert succeeded although a group of it stopped at a duplicate, whose
\* first row is left in no group, and the group after it was queued.
SkippedThenLaterQueued ==
    /\ reply.op = "insert"
    /\ reply.ok
    /\ \E id \in DOMAIN mem_db.records[SERVICES_TABLE_TYPE] :
          mem_db.records[SERVICES_TABLE_TYPE][id].group_id = None
    /\ GroupsFor(mem_db, Mqtt1) # {}

CompleteAnswersOnes ==
    \A statuses \in StatusLists :
        \A r \in {api_work_done(mem_db, statuses, <<>>, clock)} :
            LET applied == {i \in 1..Len(statuses) :
                               statuses[i].status_id \in DOMAIN mem_db.statuses}
            IN  /\ applied = {} => r.db = mem_db
                /\ Len(r.results) = Cardinality(applied)
                /\ \A i \in 1..Len(r.results) : r.results[i] = 1

\* The rows <<table_type, id>> that depend on an alias.
Dependents(db, alias_id) == Range(db.records_by_aliases[alias_id])

\* The cascade rule as stated: the row's ip is not public, or the row is an
\* import never tested, or it was tested twice or more and never up, or it
\* was last up more than twice MAX_SERVER_DOWNTIME before now.
RefCascade(db, e, now) ==
    LET row == db.records[e[1]][e[2]]
        status == db.statuses[row.status_id]
    IN  \/ row.ip \notin PublicIps
        \/ e[1] = IMPORTS_TABLE_TYPE /\ status.test_no = 0
        \/ status.test_no >= 2 /\ status.last_success = 0 /\ status.last_uptime = 0
        \/ status.last_uptime # 0 /\ now - status.last_uptime > 2 * MAX_SERVER_DOWNTIME

\* The times an /alias request is checked with: absent, and 60, 1200, 1201
\* and 2000 seconds after a recorded last_uptime.
CascadeTimes ==
    {0} \cup {mem_db.statuses[sid].last_uptime + d :
                 sid \in DOMAIN mem_db.statuses, d \in {60, 1200, 1201, 2000}}

\* C14: an accepted /alias gives the new ip to exactly the dependent rows
\* the cascade rule selects; every other import and service keeps its ip.
CascadeRule ==
    \A alias_id \in AliasIds, ip \in AliasIps, current_time \in CascadeTimes :
        \A r \in {api_update_alias(mem_db, alias_id, ip, current_time, clock)} :
            r.ok =>
                \A t \in {IMPORTS_TABLE_TYPE, SERVICES_TABLE_TYPE} :
                    \A id \in DOMAIN mem_db.records[t] :
                        r.db.records[t][id].ip =
                            IF /\ <<t, id>> \in Dependents(mem_db, alias_id)
                               /\ RefCascade(mem_db, <<t, id>>,
                                             IF current_time # 0 THEN current_time
                                             ELSE clock)
                            THEN ip
                            ELSE mem_db.records[t][id].ip

\* An /alias has moved a service that had been up, and is no longer, to the
\* alias's new address.
MovedAfterDowntime ==
    /\ reply.op = "alias"
    /\ reply.ok
    /\ \E id \in DOMAIN mem_db.records[SERVICES_TABLE_TYPE] :
          LET row == mem_db.records[SERVICES_TABLE_TYPE][id]
          IN  /\ row.alias_id = 1
              /\ row.ip = "8.8.8.8"
              /\ row.ip = mem_db.records[ALIASES_TABLE_TYPE][1].ip
              /\ mem_db.statuses[row.status_id].last_uptime # 0

\* C15: an /alias whose ip is not public, or whose alias_id names no alias,
\* fails and leaves the whole store - the alias rows, aliases_by_ip and the
\* ip of every import and service - as it was.
RefusedAliasChangesNothing ==
    \A alias_id \in AliasIds, ip \in AliasIps, current_time \in AliasTimes :
        \A r \in {api_update_alias(mem_db, alias_id, ip, current_time, clock)} :
            (ip \notin PublicIps \/ alias_id \notin DOMAIN mem_db.records[ALIASES_TABLE_TYPE])
                => /\ ~r.ok
                   /\ r.db.records = mem_db.records
                   /\ r.db.aliases_by_ip = mem_db.aliases_by_ip
                   /\ r.db = mem_db

\* An /alias was refused while the alias was indexed under an address and
\* services depended on it.
AliasRefused ==
    /\ reply.op = "alias"
    /\ ~reply.ok
    /\ mem_db.aliases_by_ip # EmptyMap
    /\ \E e \in Dependents(mem_db, 1) : e[1] = SERVICES_TABLE_TYPE

\* The uniqueness key of a row of each table.
KeyOf(table_type, row) ==
    CASE table_type = SERVICES_TABLE_TYPE ->
             <<row.af, row.proto, row.type, row.ip, row.port>>
      [] table_type = IMPORTS_TABLE_TYPE ->
             <<row.import_type, row.af, Locator(row.ip, row.fqn), row.port>>
      [] OTHER -> <<row.af, row.fqn>>

\* C18: in every reachable state no two rows of a table share their
\* uniqueness key, the states left by the ip cascade of /alias included.
UniqueRows ==
    \A t \in TableSet :
        \A i, j \in DOMAIN mem_db.records[t] :
            KeyOf(t, mem_db.records[t][i]) = KeyOf(t, mem_db.records[t][j]) => i = j

\* C17: a request to /work, /complete, /insert or /alias from an address
\* that is neither 127.0.0.1 nor ::1 is answered 403 and leaves the store
\* as it was, whatever it asks for; /servers answers 200 to every address.
LoopbackOnly ==
    \A client_host \in ClientHosts :
        /\ route_servers(mem_db, client_host) = [db |-> mem_db, code |-> 200]
        /\ client_host \notin {"127.0.0.1", "::1"} =>
              LET refused == [db |-> mem_db, code |-> 403]
              IN  /\ \A stack_type \in StackChoices, table_type \in TableChoices,
                        w \in WorkTimes :
                        route_work(mem_db, client_host, stack_type, table_type,
                                   w[1], w[2], clock) = refused
                  /\ \A statuses \in StatusLists :
                        route_complete(mem_db, client_host, statuses, clock) = refused
                  /\ \A imports_list \in ImportsLists, status_id \in StatusChoices :
                        route_insert(mem_db, client_host, imports_list, status_id,
                                     clock) = refused
                  /\ \A alias_id \in AliasIds, ip \in AliasIps,
                        current_time \in AliasTimes :
                        route_alias(mem_db, client_host, alias_id, ip, current_time,
                                    clock) = refused

\* A client elsewhere was refused an /alias for an alias that exists, while
\* a service depending on that alias waits for its address.
RefusedFromElsewhere ==
    /\ reply.op = "alias"
    /\ reply.code = 403
    /\ reply.client = "203.0.113.7"
    /\ \E e \in Dependents(mem_db, 1) :
          e[1] = SERVICES_TABLE_TYPE /\ mem_db.records[e[1]][e[2]].ip = "10.0.0.1"

\* A restored store equals the store it was saved from, up to the sublists
\* and timestamps of the queues and the advance of the id watermarks: same
\* rows, statuses, indexes and groups, every group in init.
RestoredAs(restored, db) ==
    /\ restored.records = db.records
    /\ restored.statuses = db.statuses
    /\ restored.uniques = db.uniques
    /\ restored.aliases_by_ip = db.aliases_by_ip
    /\ restored.records_by_aliases = db.records_by_aliases
    /\ restored.groups = db.groups
    /\ \A t \in TableSet, af \in AfSet :
          /\ DOMAIN restored.work[t][af].index = DOMAIN db.work[t][af].index
          /\ \A g \in DOMAIN restored.work[t][af].index :
                /\ restored.work[t][af].index[g] = STATUS_INIT
                /\ g \in Range(restored.work[t][af].queues[STATUS_INIT])
    /\ \A k \in DOMAIN db.ids : restored.ids[k] >= db.ids[k]

\* C19: a store saved without error and loaded again is the same store, up
\* to every group being in init and the id watermarks.
SnapshotRoundTrip ==
    \A r \in {sqlite_import(save_all(mem_db, sqlite_db, {}, FALSE), clock)} :
        r.ok /\ RestoredAs(r.db, mem_db)

\* C20: a backup during which the insert of a row fails with an error other
\* than an integrity error is rolled back: the sqlite file holds what it
\* held before.
SnapshotAllOrNothing ==
    \A faults \in FaultChoices :
        faults # {} => save_all(mem_db, sqlite_db, faults, FALSE) = sqlite_db

\* C30: in every sublist of the WorkQueue the timestamps of the entries do
\* not decrease from head to tail.
SublistsInTimeOrder ==
    \A sk \in Range(STATUS_TYPES) :
        \A i, j \in 1..Len(work_queue.queues[sk]) :
            i < j => work_queue.timestamps[work_queue.queues[sk][i]]
                        <= work_queue.timestamps[work_queue.queues[sk][j]]

\* A sublist holds an entry moved into it after the clock advanced, behind
\* an older entry.
OlderAheadOfNewer ==
    \E sk \in Range(STATUS_TYPES) :
        /\ Len(work_queue.queues[sk]) >= 2
        /\ work_queue.timestamps[work_queue.queues[sk][1]]
              < work_queue.timestamps[work_queue.queues[sk][2]]

\* C27: every import and service row is a member of the group registered
\* under its group_id, and that group is in the work queue of its table and
\* address family.
EveryRowInQueuedGroup ==
    \A t \in {IMPORTS_TABLE_TYPE, SERVICES_TABLE_TYPE} :
        \A id \in DOMAIN mem_db.records[t] :
            LET row == mem_db.records[t][id]
            IN  /\ row.group_id \in DOMAIN mem_db.groups
                /\ mem_db.groups[row.group_id].table_type = t
                /\ id \in Range(mem_db.groups[row.group_id].group)
                /\ row.group_id \in DOMAIN mem_db.work[t][row.af].index

\* The score of the listing's row for the service with row id 1.
ListedScore ==
    server_cache.lists[<<STUN_MAP_TYPE, IP4, UDP>>][1][1].score

\* C25: compute_service_score is within [0, 1] for every status, and with
\* test_no, uptime and max_uptime fixed a larger failed_tests never gives a
\* larger score; the listing carries that score.
ScoreBoundedAndMonotone ==
    /\ \A st \in ScoreStatuses :
          /\ compute_service_score(st) \in 0..SCORE_ONE
          /\ \A more \in 0..MaxScoreTests :
                more > st.failed_tests =>
                    compute_service_score([st EXCEPT !.failed_tests = more])
                        <= compute_service_score(st)
    /\ server_cache # <<>> =>
          ListedScore = compute_service_score(ScoredStatus(mem_db))

\* The listing was rebuilt for a service whose failures cost it a part of
\* its score, not all of it.
FailuresLoweredScore ==
    /\ server_cache # <<>>
    /\ ScoredStatus(mem_db).failed_tests > 0
    /\ ListedScore > 0
    /\ ListedScore < compute_service_score(
                         [ScoredStatus(mem_db) EXCEPT !.failed_tests = 0])

\* The listing refresh_server_cache would build now.
Rebuilt == build_server_list(mem_db, clock)

\* The places <<triple, position>> of a listing where a group is listed.
PlacesOf(c, group_id) ==
    UNION {{<<tr, k>> : k \in {x \in 1..Len(c.lists[tr]) :
                                 c.lists[tr][x][1].group_id = group_id}} :
           tr \in DOMAIN c.lists}

\* C23: a rebuilt listing has a list for every (service type, af, proto),
\* every group of the services table is listed exactly once, in the list of
\* its first member's (type, af, proto), and no group of the imports or
\* aliases table is listed.
CatalogueListsEveryService ==
    \A c \in {Rebuilt} :
        /\ \A st \in Range(SERVICE_TYPES), af \in Range(VALID_AFS), proto \in {UDP, TCP} :
              <<st, af, proto>> \in DOMAIN c.lists
        /\ \A g \in DOMAIN mem_db.groups :
              IF mem_db.groups[g].table_type = SERVICES_TABLE_TYPE
              THEN LET first == mem_db.records[SERVICES_TABLE_TYPE][mem_db.groups[g].group[1]]
                   IN  \E k \in 1..MaxCatRows :
                          PlacesOf(c, g) = {<< <<first.type, first.af, first.proto>>, k >>}
              ELSE PlacesOf(c, g) = {}
        /\ server_cache # <<>> /\ reply.op = "refresh" => server_cache = c

\* The listing was rebuilt over services of two triples, imports and an
\* alias, and some of its lists are empty.
ListedAmongImports ==
    /\ reply.op = "refresh"
    /\ Len(server_cache.lists[<<STUN_MAP_TYPE, IP4, UDP>>]) = 2
    /\ Len(server_cache.lists[<<STUN_CHANGE_TYPE, IP6, UDP>>]) = 1
    /\ server_cache.lists[<<MQTT_TYPE, IP4, TCP>>] = <<>>
    /\ \E g \in DOMAIN mem_db.groups : mem_db.groups[g].table_type = IMPORTS_TABLE_TYPE
    /\ \E g \in DOMAIN mem_db.groups : mem_db.groups[g].table_type = ALIASES_TABLE_TYPE

\* The score of a services row by itself.
RowScore(id) ==
    compute_service_score(
        mem_db.statuses[mem_db.records[SERVICES_TABLE_TYPE][id].status_id])

\* C24: in a rebuilt listing every member of a group carries the mean of
\* the scores of the group's rows, and every list is in nonincreasing order
\* of the score of its groups' first members.
MeanScoresInDescendingOrder ==
    \A c \in {Rebuilt} : \A tr \in DOMAIN c.lists : \A list \in {c.lists[tr]} :
            /\ \A k \in 1..Len(list) :
                  LET own == [i \in 1..Len(list[k]) |-> RowScore(list[k][i].id)]
                  IN  \A i \in 1..Len(list[k]) :
                         list[k][i].score = SumSeq(own) \div Len(own)
            /\ \A k \in 1..(Len(list) - 1) :
                  list[k][1].score >= list[k + 1][1].score

\* The listing was rebuilt with a later group ahead of an earlier one of a
\* lower score, and with a group of four whose rows score differently.
BetterGroupListedFirst ==
    /\ reply.op = "refresh"
    /\ LET list == server_cache.lists[<<STUN_MAP_TYPE, IP4, UDP>>]
       IN  /\ Len(list) = 2
           /\ list[1][1].group_id > list[2][1].group_id
           /\ list[1][1].score > list[2][1].score
    /\ LET list == server_cache.lists[<<STUN_CHANGE_TYPE, IP6, UDP>>]
       IN  /\ Len(list) = 1
           /\ Len(list[1]) = 4
           /\ \E i, j \in 1..4 : RowScore(list[1][i].id) # RowScore(list[1][j].id)
           /\ list[1][1].score > 0

\* The key of the import a well-formed seed line stands for.
SeedKey(line) ==
    ImportUnique(line.import_type, line.af, parse(line.parts).ip,
                 parse(line.parts).port, parse(line.parts).fqn)

\* Whether a row of a store refers to an alias or a status the store lacks.
Dangles(store, table_type, row) ==
    \/ /\ table_type # ALIASES_TABLE_TYPE
       /\ row.alias_id # None
       /\ row.alias_id \notin DOMAIN store[ALIASES_TABLE_TYPE]
    \/ ~\E sid \in DOMAIN store[STATUS_TABLE_TYPE] :
           /\ store[STATUS_TABLE_TYPE][sid].table_type = table_type
           /\ store[STATUS_TABLE_TYPE][sid].row_id = row.id

\* C29: when the store a process starts from holds a row whose alias or
\* status is missing, the restore completes all the same: every row that
\* refers to nothing missing is loaded and its group is queued, and the seed
\* lines are merged.
RestoreSkipsDanglingRows ==
    sqlite_import(save_all(mem_db, sqlite_db, {}, FALSE), clock).ok =>
        \A faults \in DanglingFaults :
            \A store \in {save_all(mem_db, sqlite_db, faults, FALSE)} :
                \A r \in {main(store, clock)} :
                    /\ r.ok
                    /\ \A t \in TableSet : \A id \in DOMAIN store[t] :
                          ~Dangles(store, t, store[t][id]) =>
                              /\ id \in DOMAIN r.db.records[t]
                              /\ r.db.records[t][id].group_id \in DOMAIN r.db.groups
                              /\ \E af \in AfSet :
                                    r.db.records[t][id].group_id
                                        \in DOMAIN r.db.work[t][af].index
                    /\ \A k \in 1..Len(SeedLines) :
                          ~parse_raises(SeedLines[k].parts) =>
                              SeedKey(SeedLines[k]) \in r.db.uniques[IMPORTS_TABLE_TYPE]

\* Whether merging the seed lines into a store leaves its imports and its
\* groups as they are.
MergeAddsNothing(db) ==
    \A m \in {insert_from_lines(db, SeedLines, clock)} :
        /\ m.records[IMPORTS_TABLE_TYPE] = db.records[IMPORTS_TABLE_TYPE]
        /\ m.groups = db.groups
        /\ m.work = db.work

\* The well-formed lines of the seed files.
WellFormedSeeds == {k \in 1..Len(SeedLines) : ~parse_raises(SeedLines[k].parts)}

\* C26: the merge of the seed lines skips the malformed and the duplicate
\* lines and inserts every other line as an import queued in init; merging
\* the lines again, into the running store or into the store restored from
\* its backup, adds no import and no group.
SeedMergeSkipsAndDeduplicates ==
    /\ \A m \in {insert_from_lines(MemDB, SeedLines, StartClock)} :
          /\ {StoreKey(IMPORTS_TABLE_TYPE, m.records[IMPORTS_TABLE_TYPE][id]) :
                 id \in DOMAIN m.records[IMPORTS_TABLE_TYPE]}
                = {SeedKey(SeedLines[k]) : k \in WellFormedSeeds}
          /\ Cardinality(DOMAIN m.records[IMPORTS_TABLE_TYPE])
                = Cardinality({SeedKey(SeedLines[k]) : k \in WellFormedSeeds})
          /\ \A id \in DOMAIN m.records[IMPORTS_TABLE_TYPE] :
                LET row == m.records[IMPORTS_TABLE_TYPE][id]
                IN  row.group_id \in Range(m.work[IMPORTS_TABLE_TYPE][row.af].queues[STATUS_INIT])
    /\ MergeAddsNothing(mem_db)
    /\ \A r \in {sqlite_import(save_all(mem_db, sqlite_db, {}, FALSE), clock)} :
          r.ok => MergeAddsNothing(r.db)

\* C21: at any moment at most one of the coroutines that take a backup is
\* between the BEGIN and the commit or rollback of save_all, the backup of
\* shutdown_event included.
OneSnapshotAtATime ==
    ~(tasks.refresh \in InTransaction /\ tasks.shutdown \in InTransaction)

\* C22: the requests are served atomically: of the /work requests answered
\* at one moment of the dealer's clock no two are answered with the same
\* group.
ConcurrentWorkDealsDistinctGroups ==
    \A a, b \in Threads :
        (a # b /\ tasks.threads[a].returned # None)
            => tasks.threads[a].returned # tasks.threads[b].returned

\* A group waits in the init, available or dealt sublist of its queue.
Queued(g) ==
    /\ g \in DOMAIN mem_db.groups
    /\ \E af \in AfSet :
          LET wq == mem_db.work[mem_db.groups[g].table_type][af]
          IN  g \in DOMAIN wq.index /\ wq.index[g] # STATUS_DISABLED

\* C28: under sustained polling by unfiltered dual-stack workers with time
\* advancing, every group that waits in an init, available or dealt sublist
\* is eventually returned by /work.
NoQueueStarved ==
    \A g \in 1..MaxFairGroups :
        Queued(g) ~> (reply.op = "work" /\ reply.group_id = g)

(***************************************************************************)
(* The worker process (worker/worker.py, worker/worker_utils.py).          *)
(***************************************************************************)
\* status_ids = [w["status_id"] for w in work if "status_id" in w]
status_ids_of(db, table_type, rows) ==
    [n \in DOMAIN rows |-> db.records[table_type][rows[n]].status_id]

\* The first element of the pair worker() returns once it has work: 1 at
\* the end of the try block, 0 from the except block.
worker_returns(probe, raised) == IF raised THEN 0 ELSE 1

\* The payload update_work_status posts to /complete.
update_work_status(status_ids, is_success, t) ==
    [n \in DOMAIN status_ids |->
        [status_id |-> status_ids[n], is_success |-> is_success, t |-> t]]

\* What imports_monitor hands to /insert for a validated import, and the
\* address alias_monitor resolves.
FoundImports == <<StunMap1>>

ResolvedIp == "1.1.1.1"

MaySleep == clock < StartClock + MaxSleeps * MONITOR_FREQUENCY

\* fetch_work_list: /work with the worker's stack and table filter.  No
\* work: worker() returns NO_WORK and process_work returns after its sleep
\* without posting anything.
WorkerFetch(table_type) ==
    /\ tasks.worker.pc = "idle"
    /\ \E r \in {api_get_work(mem_db, DUEL_STACK, table_type, 0, 0, clock)} :
          /\ mem_db' = r.db
          /\ reply' = [NoReply EXCEPT !.op = "work", !.code = 200,
                                      !.group_id = r.group_id, !.rows = r.rows,
                                      !.from = r.from, !.table_type = r.table_type,
                                      !.af = r.af, !.elapsed = r.elapsed]
          /\ dealt_at' = IF r.group_id = None THEN dealt_at
                         ELSE MapPut(dealt_at, r.group_id, clock)
          /\ tasks' = [tasks EXCEPT !.worker =
                IF r.group_id = None
                THEN [@ EXCEPT !.pc = "idle", !.table_type = None, !.group_id = None,
                               !.id = None, !.status_ids = <<>>, !.probe = None,
                               !.is_success = None, !.posted = 0]
                ELSE [@ EXCEPT !.pc = "probe",
                               !.table_type = r.table_type,
                               !.group_id = r.group_id,
                               !.id = r.rows[1],
                               !.status_ids = status_ids_of(mem_db, r.table_type, r.rows),
                               !.probe = None, !.is_success = None, !.posted = 0,
                               !.fetched = MapPut(@, r.group_id,
                                    IF r.group_id \in DOMAIN @ THEN @[r.group_id] + 1
                                    ELSE 1)]]
    /\ UNCHANGED <<clock, work_queue, sqlite_db, server_cache>>

\* The monitor of the work's table runs and finds something (probe = 1) or
\* nothing (probe = 0), or raises having found nothing; a validated import is posted to /insert
\* and a resolved alias to /alias before worker() returns.
WorkerProbe(probe, raised) ==
    /\ tasks.worker.pc = "probe"
    /\ LET w == tasks.worker
           posts == ~raised /\ probe = 1
       IN  /\ mem_db' =
                 IF posts /\ w.table_type = IMPORTS_TABLE_TYPE
                 THEN api_insert_services(mem_db, FoundImports, w.status_ids[1], clock).db
                 ELSE IF posts /\ w.table_type = ALIASES_TABLE_TYPE
                 THEN api_update_alias(mem_db, w.id, ResolvedIp, 0, clock).db
                 ELSE mem_db
           /\ reply' =
                 IF posts /\ w.table_type = IMPORTS_TABLE_TYPE
                 THEN [NoReply EXCEPT !.op = "insert", !.code = 200]
                 ELSE IF posts /\ w.table_type = ALIASES_TABLE_TYPE
                 THEN [NoReply EXCEPT !.op = "alias", !.code = 200]
                 ELSE reply
           /\ tasks' = [tasks EXCEPT !.worker =
                 [@ EXCEPT !.pc = "report", !.probe = probe,
                           !.is_success = worker_returns(probe, raised)]]
    /\ UNCHANGED <<clock, dealt_at, work_queue, sqlite_db, server_cache>>

\* process_work: update_work_status posts the outcome to /complete.
WorkerReport ==
    /\ tasks.worker.pc = "report"
    /\ LET w == tasks.worker
           statuses == update_work_status(w.status_ids, w.is_success, clock)
       IN  \E r \in {api_work_done(mem_db, statuses, <<>>, clock)} :
              /\ mem_db' = r.db
              /\ reply' = [NoReply EXCEPT !.op = "complete", !.code = 200,
                                          !.results = r.results]
              /\ dealt_at' = Forget(dealt_at, CompletedGroups(mem_db, statuses))
              /\ tasks' = [tasks EXCEPT !.worker =
                    [@ EXCEPT !.pc = "idle",
                              !.posted = IF statuses = <<>> THEN 0 ELSE 1]]
    /\ UNCHANGED <<clock, work_queue, sqlite_db, server_cache>>

\* process_work found no work and sleeps; poll after poll finds nothing
\* until a monitoring period has gone by.
WorkerSleeps ==
    /\ tasks.worker.pc = "idle"
    /\ reply.op = "work" /\ reply.group_id = None
    /\ MaySleep
    /\ clock' = clock + MONITOR_FREQUENCY
    /\ reply' = NoReply
    /\ UNCHANGED <<mem_db, dealt_at, work_queue, sqlite_db, server_cache, tasks>>

\* One worker process running process_work again and again.
NextWorker ==
    \/ \E table_type \in TableChoices :
          MayComplete(1, MaxWorkerTests) /\ WorkerFetch(table_type)
    \/ \E probe \in {0, 1}, raised \in BOOLEAN :
          (raised => probe = 0) /\ WorkerProbe(probe, raised)
    \/ WorkerReport
    \/ WorkerSleeps

SpecWorker == Init /\ [][NextWorker]_vars

(***************************************************************************)
(* C31: imports are tried IMPORT_TEST_NO times and then stopped.           *)
(***************************************************************************)
\* The import statuses every completion of which was a failure.
AlwaysFailedImports(db) ==
    {sid \in DOMAIN db.statuses :
        /\ db.statuses[sid].table_type = IMPORTS_TABLE_TYPE
        /\ db.statuses[sid].failed_tests = db.statuses[sid].test_no
        /\ StatusGroup(db, sid) \in DOMAIN db.groups}

TimesFetched(g) ==
    IF g \in DOMAIN tasks.worker.fetched THEN tasks.worker.fetched[g] ELSE 0

\* C31: an import whose every probe failed, each try being one /work
\* followed by one failing /complete with no worker timeout, has been
\* handed out by /work at most IMPORT_TEST_NO times, and once its status
\* has test_no >= IMPORT_TEST_NO its group is in the disabled sublist.
ImportsStoppedAfterThreeTries ==
    \A sid \in AlwaysFailedImports(mem_db) :
        \A g \in {StatusGroup(mem_db, sid)} :
            /\ TimesFetched(g) <= IMPORT_TEST_NO
            /\ mem_db.statuses[sid].test_no >= IMPORT_TEST_NO =>
                   QueueOf(mem_db, g).index[g] = STATUS_DISABLED

\* The first half of C31 alone.
ImportFetchedAtMostThreeTimes ==
    \A sid \in AlwaysFailedImports(mem_db) :
        TimesFetched(StatusGroup(mem_db, sid)) <= IMPORT_TEST_NO

\* The second half of C31 alone.
ThirdFailureDisablesImport ==
    \A sid \in AlwaysFailedImports(mem_db) :
        \A g \in {StatusGroup(mem_db, sid)} :
            mem_db.statuses[sid].test_no >= IMPORT_TEST_NO =>
                QueueOf(mem_db, g).index[g] = STATUS_DISABLED

(***************************************************************************)
(* C32: what a worker reports to /complete.                                *)
(***************************************************************************)
\* C32: for a group of work it obtained, the worker posts /complete once
\* for the group's status ids with is_success equal to what the probe
\* found (0 for a server found offline or an import or alias probe that
\* found nothing, 1 only for a probe that succeeded); when /work returned no
\* work it posts no /complete.
WorkerReportsProbeOutcome ==
    \A w \in {tasks.worker} :
        /\ w.pc = "report" => w.is_success = w.probe
        /\ (w.pc = "idle" /\ w.group_id # None) =>
               /\ w.posted = 1
               /\ reply.op = "complete"
               /\ Len(reply.results) = Len(w.status_ids)
        /\ (reply.op = "work" /\ reply.group_id = None) => w.posted = 0

\* The parts of C32 on how often /complete is posted.
WorkerPostsOncePerGroup ==
    \A w \in {tasks.worker} :
        /\ (w.pc = "idle" /\ w.group_id # None) =>
               /\ w.posted = 1
               /\ reply.op = "complete"
               /\ Len(reply.results) = Len(w.status_ids)
        /\ (reply.op = "work" /\ reply.group_id = None) => w.posted = 0

\* A service found offline is about to be reported.
OfflineServiceReported ==
    /\ tasks.worker.pc = "report"
    /\ tasks.worker.table_type = SERVICES_TABLE_TYPE
    /\ tasks.worker.probe = 0

(***************************************************************************)
(* C34: uptime as one continuous window.                                   *)
(***************************************************************************)
\* C34: uptime never exceeds the time between the first successful
\* completion after the most recent failure and the most recent successful
\* completion.  For a status that fails now, recovers one TickStep later and
\* succeeds again a TickStep after that: uptime is 0 at the recovery and at
\* most one TickStep at the second success.
UptimeCountsNoDowntime ==
    \A sid \in DOMAIN mem_db.statuses :
        ~mark_complete_raises(mem_db, sid) =>
            \A down \in {mark_complete(mem_db, 0, sid, clock, clock)} :
                \A up \in {mark_complete(down, 1, sid, clock + TickStep,
                                         clock + TickStep)} :
                    \A again \in {mark_complete(up, 1, sid, clock + 2 * TickStep,
                                                clock + 2 * TickStep)} :
                        /\ down.statuses[sid].uptime = 0
                        /\ up.statuses[sid].uptime = 0
                        /\ again.statuses[sid].uptime <= TickStep

\* C34 for a status that has not succeeded before its failure.
UptimeWindowOfFirstSuccess ==
    \A sid \in DOMAIN mem_db.statuses :
        (~mark_complete_raises(mem_db, sid) /\ mem_db.statuses[sid].last_uptime = 0) =>
            \A down \in {mark_complete(mem_db, 0, sid, clock, clock)} :
                \A up \in {mark_complete(down, 1, sid, clock + TickStep,
                                         clock + TickStep)} :
                    \A again \in {mark_complete(up, 1, sid, clock + 2 * TickStep,
                                                clock + 2 * TickStep)} :
                        /\ up.statuses[sid].uptime = 0
                        /\ again.statuses[sid].uptime <= TickStep

(***************************************************************************)
(* C35: a disabled import stays disabled.                                  *)
(***************************************************************************)
\* The groups of imports that are in the disabled sublist of their queue.
DisabledImportGroups(db) ==
    {g \in DOMAIN db.groups :
        /\ db.groups[g].table_type = IMPORTS_TABLE_TYPE
        /\ g \in DOMAIN QueueOf(db, g).index
        /\ QueueOf(db, g).index[g] = STATUS_DISABLED}

\* C35: once an import's group is in the disabled sublist it stays there
\* under every later /work, /complete and /insert, late or repeated
\* /complete calls naming its status included, and /work never returns it.
DisabledImportStaysDisabled ==
    [][\A g \in DisabledImportGroups(mem_db) :
          /\ g \in DisabledImportGroups(mem_db')
          /\ ~(reply'.op = "work" /\ reply'.group_id = g)]_vars

\* C35 for the requests a worker process sends in its own cycle.
DisabledImportStaysDisabledForWorker ==
    [][\A g \in DisabledImportGroups(mem_db) :
          g \in DisabledImportGroups(mem_db')]_vars

(***************************************************************************)
(* C36: completions are only counted for dealt work.                       *)
(***************************************************************************)
\* The known statuses whose group is queued outside the dealt sublist.
NotDealtStatuses(db) ==
    {sid \in DOMAIN db.statuses :
        \E g \in {StatusGroup(db, sid)} :
            /\ g \in DOMAIN db.groups
            /\ g \in DOMAIN QueueOf(db, g).index
            /\ QueueOf(db, g).index[g] # STATUS_DEALT}

\* The first half of C36: a /complete or /insert naming a status whose
\* group is not in the dealt sublist changes neither the queue nor the
\* status.
NotDealtCompletionIgnored ==
    \A sid \in NotDealtStatuses(mem_db) :
        /\ \A is_success \in {0, 1} :
              \A r \in {api_work_done(mem_db,
                            update_work_status(<<sid>>, is_success, clock),
                            <<>>, clock)} :
                  /\ r.db.work = mem_db.work
                  /\ r.db.statuses[sid] = mem_db.statuses[sid]
        /\ mem_db.statuses[sid].table_type = IMPORTS_TABLE_TYPE =>
              \A r \in {api_insert_services(mem_db, <<>>, sid, clock)} :
                  /\ r.db.work = mem_db.work
                  /\ r.db.statuses[sid] = mem_db.statuses[sid]

\* The second half of C36: test_no never exceeds the number of times the
\* status's group was returned by /work.
TestNoWithinFetches ==
    \A sid \in DOMAIN mem_db.statuses :
        mem_db.statuses[sid].test_no <= TimesFetched(StatusGroup(mem_db, sid))

\* C36: completions are only counted for work that was dealt: a /complete
\* or /insert naming a status whose group is not currently in the dealt
\* sublist changes neither the queue nor the status, so test_no never
\* exceeds the number of times the group was returned by /work.
CompletionsOnlyForDealtWork ==
    NotDealtCompletionIgnored /\ TestNoWithinFetches

(***************************************************************************)
(* C39: /insert and its originating status.                                *)
(***************************************************************************)
\* C39: /insert is all-or-nothing with respect to its originating status:
\* when the final mark_complete fails, because status_id is unknown or its
\* group cannot be moved, and the request errors, no service row and no
\* work group from imports_list has been added to the store.
InsertAllOrNothing ==
    \A imports_list \in ImportsLists, status_id \in StatusChoices :
        \A g \in {insert_groups(mem_db, imports_list, clock)} :
            (g.ok /\ mark_complete_raises(g.db, status_id)) =>
                \A r \in {api_insert_services(mem_db, imports_list, status_id, clock)} :
                    /\ ~r.ok
                    /\ r.db.records[SERVICES_TABLE_TYPE] = mem_db.records[SERVICES_TABLE_TYPE]
                    /\ r.db.groups = mem_db.groups
                    /\ r.db.work = mem_db.work

\* C39's precondition with nothing to insert: the request errors and the
\* store is as it was.
FailedEmptyInsertChangesNothing ==
    \A status_id \in StatusChoices :
        mark_complete_raises(mem_db, status_id) =>
            \A r \in {api_insert_services(mem_db, <<>>, status_id, clock)} :
                ~r.ok /\ r.db = mem_db

(***************************************************************************)
(* C40: the bookkeeping of a WorkQueue.                                    *)
(***************************************************************************)
\* A call of add_work as a whole: the KeyError for a known id is raised
\* before anything is touched.
add_work_call(wq, work_id, queue_name, now) ==
    IF add_work_raises(wq, work_id)
    THEN [wq |-> wq, raised |-> TRUE]
    ELSE [wq |-> add_work(wq, work_id, queue_name, now), raised |-> FALSE]

\* A call of move_work as a whole: the KeyError for an unknown id is raised
\* before anything is touched.
move_work_call(wq, work_id, queue_name, now) ==
    IF move_work_raises(wq, work_id)
    THEN [wq |-> wq, raised |-> TRUE]
    ELSE [wq |-> move_work(wq, work_id, queue_name, now), raised |-> FALSE]

HeldIds(wq) == UNION {Range(wq.queues[sk]) : sk \in Range(STATUS_TYPES)}

BookkeepingConsistent(wq) ==
    /\ DOMAIN wq.index = HeldIds(wq)
    /\ DOMAIN wq.timestamps = HeldIds(wq)
    /\ \A g \in HeldIds(wq) : \A pl \in Occurrences(wq, g) : pl[1] = wq.index[g]

\* C40: after any sequence of add_work, move_work, remove_work and
\* pop_available the key sets of index and timestamps both equal the set of
\* ids held in the four sublists and index[g] names the sublist that holds
\* g; an add_work of an indexed id and a move_work of an unknown id raise
\* KeyError and leave sublists, index and timestamps unchanged.
WorkQueueBookkeepingConsistent ==
    /\ BookkeepingConsistent(work_queue)
    /\ \A work_id \in WorkIds, queue_name \in Range(STATUS_TYPES) :
          /\ \A r \in {add_work_call(work_queue, work_id, queue_name, clock)} :
                /\ r.raised <=> work_id \in DOMAIN work_queue.index
                /\ r.raised => r.wq = work_queue
                /\ BookkeepingConsistent(r.wq)
          /\ \A r \in {move_work_call(work_queue, work_id, queue_name, clock)} :
                /\ r.raised <=> work_id \notin DOMAIN work_queue.index
                /\ r.raised => r.wq = work_queue
                /\ BookkeepingConsistent(r.wq)

\* A queue holding a dealt and an available work and lacking a third id: an
\* add_work of an id it holds and a move_work of the id it lacks raise.
RaisingCallsOnUsedQueue ==
    /\ work_queue.queues[STATUS_DEALT] # <<>>
    /\ \E held \in DOMAIN work_queue.index, gone \in WorkIds \ DOMAIN work_queue.index :
          /\ add_work_call(work_queue, held, STATUS_INIT, clock).raised
          /\ move_work_call(work_queue, gone, STATUS_AVAILABLE, clock).raised
          /\ work_queue.queues[STATUS_AVAILABLE] # <<>>

(***************************************************************************)
(* C37: the early break of allocate_work.                                  *)
(***************************************************************************)
\* The scan that looks at every entry of every scanned sublist and takes
\* the first eligible one in priority order.
ReferenceScan(db, stack_type, table_type, cur, freq) ==
    IF \E g \in Scanned(db, stack_type, table_type) : Eligible(db, g, cur, freq)
    THEN CHOOSE g \in Scanned(db, stack_type, table_type) :
             FirstEligible(db, g, stack_type, table_type, cur, freq)
    ELSE None

\* C37: the early break loses no work: when allocate_work returns nothing
\* for given tables, address families, time and frequency, no scanned queue
\* holds an eligible group (any group in init, an available group with
\* elapsed >= frequency, a dealt group with elapsed >= WORKER_TIMEOUT), and
\* it returns the group the reference scan over every entry returns.
EarlyBreakLosesNoWork ==
    \A stack_type \in StackChoices, table_type \in TableChoices, w \in WorkTimes :
        \A r \in {api_get_work(mem_db, stack_type, table_type, w[1], w[2], clock)} :
            /\ r.group_id = None =>
                  \A g \in Scanned(mem_db, stack_type, table_type) :
                      ~Eligible(mem_db, g, RefCur(w[1]), RefFreq(w[2]))
            /\ r.group_id = ReferenceScan(mem_db, stack_type, table_type,
                                          RefCur(w[1]), RefFreq(w[2]))

\* /work answered with no work after its scan had left a dealt sublist of
\* two groups at the too recent head, the second entry never looked at, with
\* a group waiting in an available sublist as well.
BreakSkippedAnEntry ==
    /\ reply.op = "work"
    /\ reply.group_id = None
    /\ \E t \in TableSet, af \in AfSet :
          /\ Len(mem_db.work[t][af].queues[STATUS_DEALT]) >= 2
          /\ mem_db.work[t][af].queues[STATUS_INIT] = <<>>
    /\ \E t \in TableSet, af \in AfSet :
          mem_db.work[t][af].queues[STATUS_AVAILABLE] # <<>>

(***************************************************************************)
(* C33: the refresh task (dealer/dealer.py, refresh_server_cache).         *)
(***************************************************************************)
LogException == [tasks EXCEPT !.refresh = "logged",
                              !.held = <<>>,
                              !.logged = Min(@ + 1, MaxLogged)]

\* build_server_list or json.dumps raises: the bare except logs it.
RefreshRaises ==
    /\ tasks.refresh = "sleep"
    /\ tasks' = LogException
    /\ reply' = [NoReply EXCEPT !.op = "refresh"]
    /\ UNCHANGED <<mem_db, clock, dealt_at, work_queue, sqlite_db, server_cache>>

\* save_all raises at one of its awaits: it rolls back and re-raises, and
\* the bare except of the loop logs it.
SaveRaises ==
    /\ tasks.refresh \in {"connected", "begun", "writing"}
    /\ tasks' = LogException
    /\ UNCHANGED <<mem_db, clock, reply, dealt_at, work_queue, sqlite_db, server_cache>>

\* A refresh task that ends after the exception it logged.
RefreshStops ==
    /\ tasks.refresh = "logged"
    /\ tasks' = [tasks EXCEPT !.refresh = "stopped"]
    /\ UNCHANGED <<mem_db, clock, reply, dealt_at, work_queue, sqlite_db, server_cache>>

\* After log_exception() the loop goes on to await asyncio.sleep(60).
RefreshSleeps ==
    /\ tasks.refresh = "logged"
    /\ tasks' = [tasks EXCEPT !.refresh = "sleep"]
    /\ UNCHANGED <<mem_db, clock, reply, dealt_at, work_queue, sqlite_db, server_cache>>

\* A step of the refresh task, the end of its sleep included.
RefreshStep ==
    \/ RefreshWakes
    \/ RefreshRaises
    \/ SaveBegin("refresh")
    \/ SaveWrite("refresh")
    \/ SaveCommit("refresh")
    \/ SaveRaises
    \/ RefreshSleeps

\* The dealer serving /work while its refresh task runs.
NextRefresh ==
    \/ GetWork(DUEL_STACK, None, 0, 0)
    \/ RefreshWakes
    \/ RefreshRaises
    \/ SaveBegin("refresh")
    \/ SaveWrite("refresh")
    \/ SaveCommit("refresh")
    \/ SaveRaises
    \/ RefreshSleeps

\* The event loop runs the task whenever it is ready: every await of the
\* task returns or raises, and the sleep ends.
SpecRefresh ==
    /\ Init
    /\ [][NextRefresh]_vars
    /\ WF_vars(RefreshStep)

\* C33: the refresh task never stops: when a rebuild or a snapshot raises
\* the error is logged and a new cycle is attempted after the sleep, so a
\* rebuild happens infinitely often.
RefreshNeverStops ==
    []<>(tasks.refresh \in {"connected", "logged"})

\* The listing was rebuilt again after two cycles had ended in a logged
\* exception.
RebuiltAfterLoggedErrors ==
    /\ tasks.logged = MaxLogged
    /\ tasks.refresh = "connected"

(***************************************************************************)
(* C38: a snapshot written while requests are served.  The routes are      *)
(* plain functions, which the framework runs on its thread pool, and       *)
(* sqlite_export awaits every insert: requests are served between the      *)
(* tables it walks.                                                        *)
(***************************************************************************)
\* What sqlite_export has written so far, and the tables in the order it
\* walked them.
Exported ==
    IF tasks.refresh = "exporting" THEN tasks.held
    ELSE [store |-> EmptyStore, written |-> <<>>]

\* sqlite_export walks one table of mem_db.tables; the order of that dict
\* is the order its keys were inserted in by MemDB, any order here.
ExportTable(table_type) ==
    /\ tasks.refresh \in {"begun", "exporting"}
    /\ table_type \notin Range(Exported.written)
    /\ tasks' = [tasks EXCEPT
                   !.refresh = "exporting",
                   !.held = [store |-> [Exported.store EXCEPT ![table_type] =
                                           sqlite_export(mem_db, {})[table_type]],
                             written |-> Append(Exported.written, table_type)]]
    /\ UNCHANGED <<mem_db, clock, reply, dealt_at, work_queue, sqlite_db, server_cache>>

\* await sqlite_db.commit()
ExportCommit ==
    /\ tasks.refresh = "exporting"
    /\ Range(tasks.held.written) = StoreTables
    /\ sqlite_db' = tasks.held.store
    /\ reply' = [NoReply EXCEPT !.op = "save", !.results = tasks.held.written]
    /\ tasks' = [tasks EXCEPT !.refresh = "sleep", !.held = <<>>]
    /\ UNCHANGED <<mem_db, clock, dealt_at, work_queue, server_cache>>

\* /insert on a thread of the pool, up to the end of the inner loop over
\* the first group: its rows are in the services table, in no group yet.
InsertRows(th, imports_list, status_id) ==
    /\ tasks.threads[th].pc = "idle"
    /\ Len(imports_list) = 1
    /\ \E m \in {insert_members(mem_db, imports_list[1], <<>>, 0)} :
          /\ ~m.dup
          /\ m.records # <<>>
          /\ mem_db' = m.db
          /\ tasks' = [tasks EXCEPT !.threads[th] =
                          [pc |-> "inserting", group_id |-> None,
                           table_type |-> SERVICES_TABLE_TYPE, af |-> NoneStr,
                           returned |-> None, records |-> m.records,
                           status_id |-> status_id]]
    /\ UNCHANGED <<clock, reply, dealt_at, work_queue, sqlite_db, server_cache>>

\* The rest of that /insert: add_work for the group, then mark_complete.
InsertQueues(th) ==
    /\ tasks.threads[th].pc = "inserting"
    /\ LET w == tasks.threads[th]
           first == mem_db.records[SERVICES_TABLE_TYPE][w.records[1]]
           queued == MemDB_add_work(mem_db, first.af, SERVICES_TABLE_TYPE, w.records,
                                    None, STATUS_INIT, clock)
           ok == ~mark_complete_raises(queued, w.status_id)
       IN  /\ mem_db' = IF ok THEN mark_complete(queued, 1, w.status_id, 0, clock)
                        ELSE queued
           /\ reply' = [NoReply EXCEPT !.op = "insert", !.ok = ok,
                                       !.code = IF ok THEN 200 ELSE 500]
           /\ dealt_at' = IF ok THEN Forget(dealt_at, {StatusGroup(mem_db, w.status_id)})
                          ELSE dealt_at
    /\ tasks' = [tasks EXCEPT !.threads[th] = IdleThread]
    /\ UNCHANGED <<clock, work_queue, sqlite_db, server_cache>>

\* Validated imports reported and probes completed while the refresh task
\* writes its snapshot.
NextCut ==
    \/ \E statuses \in PlainStatusLists :
          MayComplete(Len(statuses), MaxSchedTests) /\ Complete(statuses)
    \/ \E sid \in KnownImportStatuses :
          MayInsert /\ MayComplete(1, MaxSchedTests) /\ InsertRows(1, <<StunMap1>>, sid)
    \/ InsertQueues(1)
    \/ RefreshWakes
    \/ SaveBegin("refresh")
    \/ \E table_type \in StoreTables : ExportTable(table_type)
    \/ ExportCommit

SpecCut == Init /\ [][NextCut]_vars

ConsistentCut(store) ==
    \A t \in {IMPORTS_TABLE_TYPE, SERVICES_TABLE_TYPE} :
        \A id \in DOMAIN store[t] : ~Dangles(store, t, store[t][id])

\* C38: a committed snapshot taken while requests are served is a
\* consistent cut of the store: every import and service row in it has its
\* status row in it and every alias_id in it names an alias in it, so the
\* restore of any committed snapshot completes without error.
CommittedSnapshotIsConsistentCut ==
    /\ ConsistentCut(sqlite_db)
    /\ sqlite_import(sqlite_db, clock).ok

\* C38 for the snapshots whose status table was written after every other
\* table.
ConsistentCutWhenStatusWrittenLast ==
    (reply.op = "save" /\ reply.results[Len(reply.results)] = STATUS_TABLE_TYPE) =>
        /\ ConsistentCut(sqlite_db)
        /\ sqlite_import(sqlite_db, clock).ok

\* C38 for the snapshots whose status table was written before every other
\* table.
ConsistentCutWhenStatusWrittenFirst ==
    (reply.op = "save" /\ reply.results[1] = STATUS_TABLE_TYPE) =>
        /\ ConsistentCut(sqlite_db)
        /\ sqlite_import(sqlite_db, clock).ok

====
